---- MODULE Spec2Model ----
(***************************************************************************)
(* Shimmer v1.0 text codec: the single-message validator of                *)
(* tools/compliance_check.py (parse_message, in_range, dp_ok, parity_t9,   *)
(* parity2b, main).                                                        *)
(*                                                                         *)
(* Text is a sequence of characters, each character a one-character string;*)
(* the two non-ASCII characters of the grammar are written ARROW (U+2192)  *)
(* and TAU (U+03C4).  A Python float is the decimal that repr() prints for *)
(* it: sign, significant digits d1..dn and the position of the decimal     *)
(* point, value = 0.d1..dn * 10^decpt.  For literals of at most 15         *)
(* significant digits float() followed by repr() yields exactly the        *)
(* literal's normalised decimal, which is the domain the model draws from. *)
(***************************************************************************)
EXTENDS Integers, Sequences, FiniteSets, TLC

ARROW == "U+2192"
TAU == "U+03C4"

\* Python's None, and an int where None is possible too
None == [none |-> TRUE]

Some(n) == [some |-> n]

(***************************************************************************)
(* Character classes and str helpers                                       *)
(***************************************************************************)
DigitChars == <<"0", "1", "2", "3", "4", "5", "6", "7", "8", "9">>

IsDigit(c) == \E i \in 1..10 : DigitChars[i] = c

DigitVal(c) == (CHOOSE i \in 1..10 : DigitChars[i] = c) - 1

UpperChars == <<"A", "B", "C", "D", "E", "F", "G", "H", "I", "J", "K", "L", "M",
                "N", "O", "P", "Q", "R", "S", "T", "U", "V", "W", "X", "Y", "Z">>

LowerChars == <<"a", "b", "c", "d", "e", "f", "g", "h", "i", "j", "k", "l", "m",
                "n", "o", "p", "q", "r", "s", "t", "u", "v", "w", "x", "y", "z">>

IsUpper(c) == \E i \in 1..26 : UpperChars[i] = c

LowerChar(c) == IF IsUpper(c) THEN LowerChars[CHOOSE i \in 1..26 : UpperChars[i] = c] ELSE c

lower(s) == [i \in 1..Len(s) |-> LowerChar(s[i])]

\* str.strip() and the regex class \s: the whitespace of the modelled alphabet
IsSpace(c) == c \in {" ", "\t", "\n"}

RECURSIVE lstrip(_)
lstrip(s) == IF s # <<>> /\ IsSpace(Head(s)) THEN lstrip(Tail(s)) ELSE s

RECURSIVE rstrip(_)
rstrip(s) == IF s # <<>> /\ IsSpace(s[Len(s)]) THEN rstrip(SubSeq(s, 1, Len(s) - 1)) ELSE s

strip(s) == rstrip(lstrip(s))

\* index of the first element of s that lies in cs, 0 when there is none
FindFrom(s, cs, i) ==
    IF \E k \in i..Len(s) : s[k] \in cs
    THEN CHOOSE k \in i..Len(s) : s[k] \in cs /\ \A j \in i..(k - 1) : s[j] \notin cs
    ELSE 0

Find(s, cs) == FindFrom(s, cs, 1)

Contains(s, c) == Find(s, {c}) # 0

\* s.split(c, 1): the text before and after the first c (c must occur)
Before(s, c) == SubSeq(s, 1, Find(s, {c}) - 1)

After(s, c) == SubSeq(s, Find(s, {c}) + 1, Len(s))

\* s.split(c): all the parts, empty ones included
RECURSIVE split(_, _)
split(s, c) ==
    IF ~Contains(s, c) THEN <<s>>
    ELSE <<Before(s, c)>> \o split(After(s, c), c)

RECURSIVE Zeros(_)
Zeros(n) == IF n <= 0 THEN <<>> ELSE <<"0">> \o Zeros(n - 1)

(***************************************************************************)
(* Python floats: float(str) and the repr that f"{x}" prints               *)
(***************************************************************************)
Fin(neg, digs, decpt) == [kind |-> "fin", neg |-> neg, digs |-> digs, decpt |-> decpt]

Inf(neg) == [kind |-> "inf", neg |-> neg, digs |-> <<>>, decpt |-> 0]

NaN == [kind |-> "nan", neg |-> FALSE, digs |-> <<>>, decpt |-> 0]

\* float() raised ValueError
NoFloat == [kind |-> "err", neg |-> FALSE, digs |-> <<>>, decpt |-> 0]

IsZero(x) == x.kind = "fin" /\ x.digs = <<>>

\* digit (["_"] digit)*
IsDigitPart(s) ==
    /\ s # <<>>
    /\ \A i \in 1..Len(s) : IsDigit(s[i]) \/ s[i] = "_"
    /\ s[1] # "_"
    /\ s[Len(s)] # "_"
    /\ \A i \in 1..(Len(s) - 1) : ~(s[i] = "_" /\ s[i + 1] = "_")

DigitsOf(s) == SelectSeq(s, IsDigit)

RECURSIVE NatOf(_)
NatOf(ds) == IF ds = <<>> THEN 0 ELSE 10 * NatOf(SubSeq(ds, 1, Len(ds) - 1)) + DigitVal(ds[Len(ds)])

RECURSIVE DropLeadingZeros(_)
DropLeadingZeros(ds) == IF ds # <<>> /\ Head(ds) = "0" THEN DropLeadingZeros(Tail(ds)) ELSE ds

RECURSIVE DropTrailingZeros(_)
DropTrailingZeros(ds) ==
    IF ds # <<>> /\ ds[Len(ds)] = "0" THEN DropTrailingZeros(SubSeq(ds, 1, Len(ds) - 1)) ELSE ds

\* the decimal 0.ds * 10^decpt, normalised the way repr's shortest digits are:
\* no leading and no trailing zero digit
NormalSig(neg, sig, decpt) == IF sig = <<>> THEN Fin(neg, <<>>, 0) ELSE Fin(neg, sig, decpt)

NormalLead(neg, lead, decpt) == NormalSig(neg, DropTrailingZeros(lead), decpt)

NormalDrop(neg, ds, lead, decpt) == NormalLead(neg, lead, decpt - (Len(ds) - Len(lead)))

Normal(neg, ds, decpt) == NormalDrop(neg, ds, DropLeadingZeros(ds), decpt)

HasSign(t) == t # <<>> /\ t[1] \in {"+", "-"}

\* the exponent's value: [sign] digitpart
ExpVal(expo) ==
    IF expo = <<>> THEN 0
    ELSE IF expo[1] = "-" THEN 0 - NatOf(DigitsOf(expo))
    ELSE NatOf(DigitsOf(expo))

ExpOk(expo) == IsDigitPart(IF HasSign(expo) THEN Tail(expo) ELSE expo)

\* digitpart? ["." digitpart?], not both empty, times 10^expVal
FloatOfParts(neg, ip, fp, expVal) ==
    IF /\ ip = <<>> \/ IsDigitPart(ip)
       /\ fp = <<>> \/ IsDigitPart(fp)
       /\ ip # <<>> \/ fp # <<>>
    THEN Normal(neg, DigitsOf(ip \o fp), Len(DigitsOf(ip)) + expVal)
    ELSE NoFloat

FloatOfMantissa(neg, mant, dot, expVal) ==
    FloatOfParts(neg,
                 IF dot = 0 THEN mant ELSE SubSeq(mant, 1, dot - 1),
                 IF dot = 0 THEN <<>> ELSE SubSeq(mant, dot + 1, Len(mant)),
                 expVal)

FloatOfExp(neg, mant, hasExp, expo) ==
    IF hasExp /\ ~ExpOk(expo) THEN NoFloat
    ELSE FloatOfMantissa(neg, mant, Find(mant, {"."}), ExpVal(expo))

FloatOfNumber(neg, u, ePos) ==
    FloatOfExp(neg,
               IF ePos = 0 THEN u ELSE SubSeq(u, 1, ePos - 1),
               ePos # 0,
               IF ePos = 0 THEN <<>> ELSE SubSeq(u, ePos + 1, Len(u)))

FloatOfWord(neg, u, low) ==
    IF low \in {<<"i", "n", "f">>, <<"i", "n", "f", "i", "n", "i", "t", "y">>} THEN Inf(neg)
    ELSE IF low = <<"n", "a", "n">> THEN NaN
    ELSE FloatOfNumber(neg, u, Find(u, {"e", "E"}))

FloatOfUnsigned(neg, u) == FloatOfWord(neg, u, lower(u))

FloatOfStripped(t) ==
    FloatOfUnsigned(HasSign(t) /\ t[1] = "-", IF HasSign(t) THEN Tail(t) ELSE t)

\* float(str): surrounding whitespace, a sign, then inf / infinity / nan in any
\* letter case or a decimal number with an optional exponent
float(s) == FloatOfStripped(strip(s))

\* two decimal digits at least, as in 1e-05 and 1e+16
ExpDigits(n) == IF n < 10 THEN <<"0", DigitChars[n + 1]>>
                ELSE <<DigitChars[(n \div 10) + 1], DigitChars[(n % 10) + 1]>>

\* repr(x), which is what f"{x}" formats: fixed notation for -4 < decpt <= 16,
\* else scientific; a whole number gets ".0"
repr(x) ==
    LET sign == IF x.neg THEN <<"-">> ELSE <<>>
        n == Len(x.digs)
        e == x.decpt - 1
    IN IF x.kind = "inf" THEN sign \o <<"i", "n", "f">>
       ELSE IF x.kind = "nan" THEN <<"n", "a", "n">>
       ELSE IF n = 0 THEN sign \o <<"0", ".", "0">>
       ELSE IF x.decpt > -4 /\ x.decpt <= 16 THEN
            IF x.decpt <= 0 THEN sign \o <<"0", ".">> \o Zeros(0 - x.decpt) \o x.digs
            ELSE IF x.decpt >= n THEN sign \o x.digs \o Zeros(x.decpt - n) \o <<".", "0">>
            ELSE sign \o SubSeq(x.digs, 1, x.decpt) \o <<".">> \o SubSeq(x.digs, x.decpt + 1, n)
       ELSE sign \o <<x.digs[1]>>
            \o (IF n > 1 THEN <<".">> \o SubSeq(x.digs, 2, n) ELSE <<>>)
            \o <<"e">> \o (IF e < 0 THEN <<"-">> ELSE <<"+">>)
            \o ExpDigits(IF e < 0 THEN 0 - e ELSE e)

\* negation of a float
Negated(x) == [x EXCEPT !.neg = ~x.neg]

Sign(x) == IF IsZero(x) THEN 0 ELSE IF x.neg THEN -1 ELSE 1

\* digit strings compared as the fractions 0.a and 0.b
RECURSIVE DigLt(_, _)
DigLt(a, b) ==
    IF b = <<>> THEN FALSE
    ELSE IF a = <<>> THEN TRUE
    ELSE IF Head(a) # Head(b) THEN DigitVal(Head(a)) < DigitVal(Head(b))
    ELSE DigLt(Tail(a), Tail(b))

\* |a| < |b| for non-zero, non-NaN floats
MagLt(a, b) ==
    IF a.kind = "inf" THEN FALSE
    ELSE IF b.kind = "inf" THEN TRUE
    ELSE IF a.decpt # b.decpt THEN a.decpt < b.decpt
    ELSE DigLt(a.digs, b.digs)

\* a < b; every comparison with NaN is false
FloatLt(a, b) ==
    /\ a.kind # "nan"
    /\ b.kind # "nan"
    /\ IF Sign(a) # Sign(b) THEN Sign(a) < Sign(b)
       ELSE IF Sign(a) = 0 THEN FALSE
       ELSE IF Sign(a) = 1 THEN MagLt(a, b)
       ELSE MagLt(b, a)

FloatLe(a, b) == a.kind # "nan" /\ b.kind # "nan" /\ ~FloatLt(b, a)

\* the decimal digits of a natural number
RECURSIVE NatDigits(_)
NatDigits(n) == IF n < 10 THEN <<DigitChars[n + 1]>>
                ELSE NatDigits(n \div 10) \o <<DigitChars[(n % 10) + 1]>>

\* float(k) + 1e-9 for a whole k >= 0; the sum has at most 10 significant
\* digits, so the float sum is the decimal sum
PlusTolerance(k) == Normal(FALSE, NatDigits(k) \o <<"0", "0", "0", "0", "0", "0", "0", "0", "1">>,
                           Len(NatDigits(k)))

\* m * x for m = 10^shift (10 * v and 100 * v)
TimesPow10(x, shift) ==
    IF x.kind = "fin" /\ x.digs # <<>> THEN [x EXCEPT !.decpt = x.decpt + shift] ELSE x

\* the digits of x before and after the decimal point
WholeOf(x) ==
    IF x.decpt <= 0 THEN 0
    ELSE IF x.decpt >= Len(x.digs) THEN NatOf(x.digs \o Zeros(x.decpt - Len(x.digs)))
    ELSE NatOf(SubSeq(x.digs, 1, x.decpt))

FracOf(x) ==
    IF x.decpt >= Len(x.digs) \/ x.decpt < 0 THEN <<>>
    ELSE SubSeq(x.digs, x.decpt + 1, Len(x.digs))

RoundsUp(whole, frac) ==
    /\ frac # <<>>
    /\ \/ DigitVal(frac[1]) > 5
       \/ DigitVal(frac[1]) = 5 /\ Len(frac) > 1
       \/ frac = <<"5">> /\ whole % 2 = 1

RoundMag(whole, up) == IF up THEN whole + 1 ELSE whole

RoundOf(neg, whole, frac) ==
    IF neg THEN 0 - RoundMag(whole, RoundsUp(whole, frac)) ELSE RoundMag(whole, RoundsUp(whole, frac))

\* round(x) of a finite float: nearest integer, ties to even
round(x) == RoundOf(x.neg, WholeOf(x), FracOf(x))

\* round() raises OverflowError on an infinity and ValueError on NaN
RoundRaises(x) == x.kind \in {"inf", "nan"}

(***************************************************************************)
(* compliance_check.py: the grammar's regular expressions                  *)
(***************************************************************************)
IsAlpha(c) == IsUpper(c) \/ (\E i \in 1..26 : LowerChars[i] = c)

\* \w: letters (TAU is a letter), digits and the underscore
IsWord(c) == IsAlpha(c) \/ IsDigit(c) \/ c = "_" \/ c = TAU

IsCtagChar(c) == IsAlpha(c) \/ IsDigit(c) \/ c \in {".", ":", "|", "_", "(", ")", "-"}

\* the character classes of the regular expressions
InClass(cls, c) ==
    CASE cls = "space" -> IsSpace(c)
      [] cls = "digit" -> IsDigit(c)
      [] cls = "word" -> IsWord(c)
      [] cls = "ctag" -> IsCtagChar(c)
      [] cls = "token" -> IsAlpha(c) \/ IsDigit(c) \/ c \in {"_", ":", ".", "@"}
      [] cls = "lower_digit" -> (IsAlpha(c) /\ ~IsUpper(c)) \/ IsDigit(c)
      [] cls = "letter_underscore" -> IsAlpha(c) \/ c = "_"
      [] cls = "ctag_run" -> c \notin {TAU, "[", ARROW}

\* number of consecutive characters of s from position i on that lie in the class
RunLen(cls, s, i) ==
    IF i > Len(s) THEN 0
    ELSE IF \A k \in i..Len(s) : InClass(cls, s[k]) THEN Len(s) - i + 1
    ELSE (CHOOSE k \in i..Len(s) :
              ~InClass(cls, s[k]) /\ \A j \in i..(k - 1) : InClass(cls, s[j])) - i

StartsAt(s, i, lit) == i + Len(lit) - 1 <= Len(s) /\ SubSeq(s, i, i + Len(lit) - 1) = lit

\* length of the match of <lit><class>+ at position i, 0 when there is none
LitRunOf(lit, run) == IF run > 0 THEN Len(lit) + run ELSE 0

LitRun(lit, cls, s, i) ==
    IF StartsAt(s, i, lit) THEN LitRunOf(lit, RunLen(cls, s, i + Len(lit))) ELSE 0

RN_RE(s, i) == LitRun(<<"r", "n">>, "digit", s, i)

FirstMatch(a, b) == IF a > 0 THEN a ELSE b

S_RE(s, i) == FirstMatch(LitRun(<<"s", ":">>, "word", s, i), LitRun(<<"s">>, "digit", s, i))

SHARD_RE(s, i) == LitRun(<<"@", "s">>, "digit", s, i)

CTAG_RE(s, i) == LitRun(<<"c", "t", "a", "g">>, "ctag", s, i)

DELIV_RE(s, i) ==
    IF i + 2 <= Len(s) /\ s[i] \in {"f", "d", "r", "m"} /\ IsDigit(s[i + 1]) /\ IsDigit(s[i + 2])
    THEN 3 ELSE 0

TEMP_RE(s, i) == LitRun(<<TAU>>, "digit", s, i)

\* length of the match of the named pattern at position i, 0 when there is none
MatchLen(re, s, i) ==
    CASE re = "RN_RE" -> RN_RE(s, i)
      [] re = "S_RE" -> S_RE(s, i)
      [] re = "SHARD_RE" -> SHARD_RE(s, i)
      [] re = "CTAG_RE" -> CTAG_RE(s, i)
      [] re = "DELIV_RE" -> DELIV_RE(s, i)
      [] re = "TEMP_RE" -> TEMP_RE(s, i)
      [] re = "TOKEN_RE" -> RunLen("token", s, i)
      [] re = "SYM_CTAG_RE" -> IF StartsAt(s, i, <<"c", "t", "a", "g", ".">>)
                               THEN 5 + RunLen("ctag_run", s, i + 5)
                               ELSE 0

FindAllStep(s, i, n) == IF n > 0 THEN <<SubSeq(s, i, i + n - 1)>> ELSE <<>>

FindAllNext(i, n) == IF n > 0 THEN i + n ELSE i + 1

\* re.findall: the non-overlapping matches, leftmost first
RECURSIVE FindAllFrom(_, _, _)
FindAllFrom(re, s, i) ==
    IF i > Len(s) THEN <<>>
    ELSE FindAllStep(s, i, MatchLen(re, s, i))
         \o FindAllFrom(re, s, FindAllNext(i, MatchLen(re, s, i)))

findall(re, s) == FindAllFrom(re, s, 1)

\* re.search: position of the leftmost match, 0 when there is none
RECURSIVE SearchFrom(_, _, _)
SearchFrom(re, s, i) ==
    IF i > Len(s) THEN 0
    ELSE IF MatchLen(re, s, i) > 0 THEN i
    ELSE SearchFrom(re, s, i + 1)

\* the position of the last match instead of the first
searchLast(re, s) ==
    IF \E i \in 1..Len(s) : MatchLen(re, s, i) > 0
    THEN CHOOSE i \in 1..Len(s) :
             MatchLen(re, s, i) > 0 /\ \A j \in (i + 1)..Len(s) : MatchLen(re, s, j) = 0
    ELSE 0

search(re, s) == SearchFrom(re, s, 1)

\* ROUTING_RE = ^\s*(.{2})(.*)$ : the position of the routing group, 0 when
\* the text does not match.  \s* is greedy and gives characters back until
\* two are left for the routing.
\* a routing that needs a third character after it
RoutingAtThree(left, ws) ==
    IF Len(left) < 3 THEN 0
    ELSE IF Len(left) - ws >= 2 THEN ws + 1
    ELSE Len(left) - 1

RoutingAt(left, ws) ==
    IF Len(left) < 2 THEN 0
    ELSE IF Len(left) - ws >= 2 THEN ws + 1
    ELSE Len(left) - 1

ROUTING_RE(left) == RoutingAt(left, RunLen("space", left, 1))

ActionCodes == {"c", "p", "a", "q", "P", "e"}

\* ACTION_RE = ^([cpaqPe])(.*)$
ACTION_RE(rest) == rest # <<>> /\ rest[1] \in ActionCodes

(***************************************************************************)
(* compliance_check.py: parse_message                                      *)
(***************************************************************************)
\* a split at the last arrow, as msg.rsplit(ARROW, 1) would make
SplitArrowLast(m) ==
    [left |-> strip(SubSeq(m, 1, (CHOOSE k \in 1..Len(m) :
                                     m[k] = ARROW /\ \A j \in (k + 1)..Len(m) : m[j] # ARROW) - 1)),
     right |-> strip(SubSeq(m, (CHOOSE k \in 1..Len(m) :
                                   m[k] = ARROW /\ \A j \in (k + 1)..Len(m) : m[j] # ARROW) + 1, Len(m)))]

\* left, right = msg.split(ARROW, 1), both stripped
SplitArrow(m) == [left |-> strip(Before(m, ARROW)), right |-> strip(After(m, ARROW))]

\* lines 66-80: the token lists and the deadline of meta_tail
Deadline(meta_tail, t) ==
    \* int() of a run of digits; its ValueError needs more than 4300 digits
    IF t = 0 THEN None
    ELSE Some(NatOf(SubSeq(meta_tail, t + 1, t + TEMP_RE(meta_tail, t) - 1)))

Tokens(meta_tail) ==
    [rn |-> findall("RN_RE", meta_tail),
     session |-> findall("S_RE", meta_tail),
     shard |-> findall("SHARD_RE", meta_tail),
     ctag |-> findall("CTAG_RE", meta_tail),
     deliverables |-> findall("DELIV_RE", meta_tail)]

\* the scan skips the character after the routing also when it is no action code
ParseActionSkip(left, routing, rest, hasAction, errs) ==
    [routing |-> routing,
     action |-> IF hasAction THEN <<rest[1]>> ELSE <<>>,
     deadline_seconds |-> Deadline(IF rest # <<>> THEN Tail(rest) ELSE rest,
                                   search("TEMP_RE", IF rest # <<>> THEN Tail(rest) ELSE rest)),
     tokens |-> Tokens(IF rest # <<>> THEN Tail(rest) ELSE rest),
     container_text |-> left,
     errs |-> errs \o (IF hasAction THEN <<>> ELSE <<"bad_action_code">>)]

\* lines 57-64
ParseAction(left, routing, rest, hasAction, errs) ==
    [routing |-> routing,
     action |-> IF hasAction THEN <<rest[1]>> ELSE <<>>,
     deadline_seconds |-> Deadline(IF hasAction THEN Tail(rest) ELSE rest,
                                   search("TEMP_RE", IF hasAction THEN Tail(rest) ELSE rest)),
     tokens |-> Tokens(IF hasAction THEN Tail(rest) ELSE rest),
     container_text |-> left,
     errs |-> errs \o (IF hasAction THEN <<>> ELSE <<"bad_action_code">>)]

\* lines 48-55
ParseRouting(left, r) ==
    IF r = 0
    THEN ParseAction(left, <<>>, left, ACTION_RE(left), <<"bad_routing_prefix">>)
    ELSE ParseAction(left, SubSeq(left, r, r + 1), SubSeq(left, r + 2, Len(left)),
                     ACTION_RE(SubSeq(left, r + 2, Len(left))), <<>>)

\* routing, action and metadata of the container text, with their errors
parse_container(left) == ParseRouting(left, ROUTING_RE(left))

NonEmpty(x) == x # <<>>

StripAll(parts) == [i \in 1..Len(parts) |-> strip(parts[i])]

\* [x.strip() for x in right[1:-1].split(",") if x.strip()]
VectorParts(right) == SelectSeq(StripAll(split(SubSeq(right, 2, Len(right) - 1), ",")), NonEmpty)

Bracketed(right) == right # <<>> /\ Head(right) = "[" /\ right[Len(right)] = "]"

Floats(nums) == [i \in 1..Len(nums) |-> float(nums[i])]

\* the arity test made before the parse test
CheckVectorArityFirst(vals) ==
    IF Len(vals) \notin {4, 5}
    THEN [values |-> None, v_err |-> <<"vector_arity_not_4_or_5">>]
    ELSE IF \E i \in 1..Len(vals) : vals[i] = NoFloat
    THEN [values |-> None, v_err |-> <<"vector_parse_error">>]
    ELSE [values |-> vals, v_err |-> <<>>]

\* lines 90-96
CheckVector(vals) ==
    IF \E i \in 1..Len(vals) : vals[i] = NoFloat
    THEN [values |-> None, v_err |-> <<"vector_parse_error">>]
    ELSE IF Len(vals) \notin {4, 5}
    THEN [values |-> None, v_err |-> <<"vector_arity_not_4_or_5">>]
    ELSE [values |-> vals, v_err |-> <<>>]

\* lines 82-96, the vector block of parse_message: values (or None) and v_err
decode_vector(right) ==
    IF ~Bracketed(right) THEN [values |-> None, v_err |-> <<"vector_brackets_missing">>]
    ELSE CheckVector(Floats(VectorParts(right)))

\* lines 98-108
ParseResult(right, c, v) ==
    [container |-> [routing |-> c.routing,
                    action |-> c.action,
                    deadline_seconds |-> c.deadline_seconds,
                    tokens |-> c.tokens,
                    container_text |-> c.container_text],
     vector |-> [raw |-> right, values |-> v.values],
     errs |-> c.errs \o v.v_err]

ParseSplit(lr) == ParseResult(lr.right, parse_container(lr.left), decode_vector(lr.right))

parse_message(m) ==
    IF ~Contains(m, ARROW)
    THEN [container |-> None, vector |-> None, errs |-> <<"missing_arrow_separator">>]
    ELSE ParseSplit(SplitArrow(m))

(***************************************************************************)
(* compliance_check.py: in_range, dp_ok, parity_t9, parity2b               *)
(***************************************************************************)
\* the comparison without the 1e-9 tolerance
InRangeExact(x, lo, hi) ==
    /\ FloatLe(Negated(Normal(FALSE, NatDigits(0 - lo), Len(NatDigits(0 - lo)))), x)
    /\ FloatLe(x, Normal(FALSE, NatDigits(hi), Len(NatDigits(hi))))

\* (x >= lo - 1e-9) and (x <= hi + 1e-9), for the whole bounds main passes:
\* lo in {-1, 0}, hi = 1
in_range(x, lo, hi) ==
    /\ FloatLe(Negated(PlusTolerance(0 - lo)), x)
    /\ FloatLe(x, PlusTolerance(hi))

\* "." not in s, else len(s.split(".", 1)[1]) <= max_dp
DpOkText(s, max_dp) == IF ~Contains(s, ".") THEN TRUE ELSE Len(After(s, ".")) <= max_dp

dp_ok(x, max_dp) == DpOkText(repr(x), max_dp)

\* the accumulator of parity_t9 and parity2b
RECURSIVE AxisSum(_, _)
AxisSum(vec, i) ==
    IF i > Len(vec) THEN 0
    ELSE round(TimesPow10(vec[i], IF i <= 4 THEN 1 ELSE 2)) + AxisSum(vec, i + 1)

\* the remainder of a division that truncates toward zero (C's %)
TruncMod(a, n) == IF a < 0 THEN 0 - ((0 - a) % n) ELSE a % n

\* Python's %: the result has the sign of the divisor
PyMod(a, n) == a % n

parity_t9(vec) == IF vec = <<>> THEN 0 ELSE PyMod(AxisSum(vec, 1), 4)

\* a & b for b >= 0, a in two's complement of unbounded width
RECURSIVE BitAnd(_, _)
BitAnd(a, b) ==
    IF b = 0 THEN 0
    ELSE (a % 2) * (b % 2) + 2 * BitAnd(a \div 2, b \div 2)

\* a ^ b for a, b >= 0
RECURSIVE BitXor(_, _)
BitXor(a, b) ==
    IF a = 0 /\ b = 0 THEN 0
    ELSE ((a + b) % 2) + 2 * BitXor(a \div 2, b \div 2)

\* hashlib.sha256(text.encode("utf-8")).digest()[0] for the container texts
\* of the model
Sha256Byte0(text) ==
    CASE text = <<"A", "B", "c">> -> 79
      [] text = <<"A", "B", "x">> -> 105
      [] text = <<"A">> -> 85
      [] text = <<>> -> 227
      [] text = <<"A", "B", "P", "r", "n", "0", "1", TAU, "3", "0", "0", "f", "0", "6">> -> 235
      [] text = <<"c">> -> 46
      [] text = <<"A", "B">> -> 56
      [] text = <<"A", "B", "C">> -> 181
      [] text = <<"A", "B", " ", "c">> -> 69
      [] text = <<"A", "B", "r", "n", "0", "1">> -> 128
      [] text = <<"f", "0", "1">> -> 155
      [] text = <<"s", "1", "c", "@", "s", "2">> -> 161
      [] text = <<"A", "B", "c", "t", "a", "g", ".", "x">> -> 102
      [] text = <<"A", "B", "c", "@", "s", "3">> -> 76
      [] text = <<"A", "B", "c", "c", "t", "a", "g", ".", "f", "0", "1">> -> 23
      [] text = <<"A", "B", "c", "r", "n", "0", "1", "r", "n", "2", "s", ":", "a", TAU, "5", TAU, "9", "d", "0", "2">> -> 5
      [] text = <<"A", "B", "c", TAU, "x", TAU, "0", "7">> -> 95
      [] text = <<"A", "B", "c", "m", "1", "0", "@", "s", "1", "s", "2">> -> 239
      [] text = <<"A", "B", "p">> -> 137
      [] text = <<"A", "B", "c", "@", "s", "3", "c", "t", "a", "g", ".", "f", "0", "1", TAU, "5", TAU, "9">> -> 165

\* the hash byte and the sum added instead of combined bit by bit
parity2bSum(container_text, vec) ==
    PyMod(Sha256Byte0(container_text) + (IF vec = <<>> THEN 0 ELSE AxisSum(vec, 1)), 4)

parity2b(container_text, vec) ==
    PyMod(BitXor(Sha256Byte0(container_text),
                 BitAnd(IF vec = <<>> THEN 0 ELSE AxisSum(vec, 1), 255)), 4)

\* round() raises inside parity_t9 / parity2b
ParityRaises(vec) == \E i \in 1..Len(vec) : RoundRaises(vec[i])

(***************************************************************************)
(* Input lines                                                             *)
(***************************************************************************)
\* most comma-separated parts of a generated vector text
MaxParts == 5

\* most irregularities (a literal other than 0, a bracket irregularity) of a
\* generated vector text
MaxOdd == 2

DefaultLiteral == <<"0">>

OddLiterals ==
    { <<"1">>,
      <<"-", "1">>,
      <<"1", ".", "5">>,
      <<"0", ".", "5", "0">>,
      <<"0", ".", "2", "5">>,
      <<"0", ".", "1", "2", "5">>,
      <<"1", "e", "-", "2">>,
      <<"1", ".", "0", "0", "0", "0", "0", "0", "0", "0", "0", "1">>,
      <<"i", "n", "f">>,
      <<"n", "a", "n">>,
      <<"x">>,
      <<>> }

\* the part lists of length n whose literals other than 0 sit at the positions
\* of odd (a function from positions to OddLiterals)
PartList(n, odd) == [i \in 1..n |-> IF i \in DOMAIN odd THEN odd[i] ELSE DefaultLiteral]

\* the positions that may hold another literal: the first axis, the last axis,
\* the confidence and whatever follows it
OddSlots(n) == {i \in 1..n : i = 1 \/ i >= 4}

OddPositions(n, k) == {pos \in SUBSET OddSlots(n) : Cardinality(pos) <= k}

RECURSIVE Join(_)
Join(parts) ==
    IF parts = <<>> THEN <<>>
    ELSE IF Len(parts) = 1 THEN parts[1]
    ELSE parts[1] \o <<",">> \o Join(Tail(parts))

OddWraps == {"padded", "noopen", "noclose", "bare", "arrow2"}

Wrap(w, body) ==
    CASE w = "ok" -> <<"[">> \o body \o <<"]">>
      [] w = "padded" -> <<" ", "[">> \o body \o <<"]", "\t">>
      [] w = "noopen" -> body \o <<"]">>
      [] w = "noclose" -> <<"[">> \o body
      [] w = "bare" -> body
      [] w = "arrow2" -> <<"c", ARROW, "[">> \o body \o <<"]">>

Wraps == {"ok"} \cup OddWraps

OddAllowed(w) == IF w = "ok" THEN MaxOdd ELSE MaxOdd - 1

Containers ==
    { <<"A", "B", "c">>,
      <<" ", "A", "B", "c", " ">>,
      <<>>,
      <<"A", "B", "x">>,
      <<"A">>,
      <<"A", "B", "P", "r", "n", "0", "1", TAU, "3", "0", "0", "f", "0", "6">> }

NoArrowLines ==
    { <<"A", "B", "c", "-", ">", "[", "0", ",", "0", ",", "0", ",", "0", "]">>,
      <<"j", "u", "s", "t", " ", "t", "e", "x", "t">> }

\* the generated lines: a container, the arrow and a vector text
IsLine(m) ==
    \E c \in Containers, w \in Wraps, n \in 0..MaxParts :
        \E pos \in OddPositions(n, OddAllowed(w)) :
            \E odd \in [pos -> OddLiterals] :
                m = c \o <<ARROW>> \o Wrap(w, Join(PartList(n, odd)))

(***************************************************************************)
(* compliance_check.py: main, one run on one message                       *)
(***************************************************************************)
VARIABLES
    msg,        \* args.message
    pc,         \* "parse", "validate", "parity", "emit", "exited", "raised"
    container,  \* parse_message's first result
    vector,     \* parse_message's second result
    errors,     \* list(errs), then the range error
    warnings,
    pt9,
    p2b,
    report,     \* the printed report, None until printed
    exit_code,  \* the process's exit status, None while running
    exc,        \* the uncaught exception, "" when there is none
    lines,      \* the input stream of the lint and the symbolize drivers
    idx,        \* position in lines of the line the driver's loop takes next
    out,        \* what the driver has printed, one element per print call
    min_score,  \* args.min_score of the linter
    all_ok,     \* all_ok of the linter's main
    shimmer_line,     \* run_once: the line it will return, None before the first call
    stats,            \* run_once: the stats it will return, None before line 159
    validate,         \* run_once: its validate argument
    min_compactness,  \* run_once: its min_compactness argument
    calls             \* run_once: the provider calls made so far, by their prompt

vars ==
    <<msg, pc, container, vector, errors, warnings, pt9, p2b, report, exit_code, exc,
      lines, idx, out, min_score, all_ok,
      shimmer_line, stats, validate, min_compactness, calls>>

\* the state of run_once
buildVars == <<shimmer_line, stats, validate, min_compactness, calls>>

\* run_once has not been called
BuildIdle ==
    /\ shimmer_line = None
    /\ stats = None
    /\ validate = FALSE
    /\ min_compactness = None
    /\ calls = <<>>

Init ==
    /\ \/ msg \in NoArrowLines
       \/ IsLine(msg)
    /\ pc = "parse"
    /\ container = None
    /\ vector = None
    /\ errors = <<>>
    /\ warnings = <<>>
    /\ pt9 = None
    /\ p2b = None
    /\ report = None
    /\ exit_code = None
    /\ exc = ""
    /\ lines = <<>>
    /\ idx = 1
    /\ out = <<>>
    /\ min_score = None
    /\ all_ok = TRUE
    /\ BuildIdle

\* lines 150-152
Parsed(r) ==
    /\ container' = r.container
    /\ vector' = r.vector
    /\ errors' = r.errs

Parse ==
    /\ pc = "parse"
    /\ Parsed(parse_message(msg))
    /\ warnings' = <<>>
    /\ pc' = "validate"
    /\ UNCHANGED <<msg, pt9, p2b, report, exit_code, exc>>
    /\ UNCHANGED <<lines, idx, out, min_score, all_ok>>
    /\ UNCHANGED buildVars

\* line 154: not errors and vector["values"]
Validates == errors = <<>> /\ vector.values # None

\* lines 157-164
RangeErrors(vec) ==
    IF \E i \in 1..Len(vec) : \/ i <= 4 /\ ~in_range(vec[i], -1, 1)
                              \/ i = 5 /\ ~in_range(vec[i], 0, 1)
    THEN <<"vector_out_of_range">>
    ELSE <<>>

\* lines 167-172
RECURSIVE AxisWarnings(_, _)
AxisWarnings(vec, i) ==
    IF i > 4 THEN <<>>
    ELSE (IF ~dp_ok(vec[i], 1) THEN <<"vector_axis_more_than_1dp">> ELSE <<>>)
         \o AxisWarnings(vec, i + 1)

DpWarnings(vec) ==
    (IF Len(vec) >= 4 THEN AxisWarnings(vec, 1) ELSE <<>>)
    \o (IF Len(vec) = 5 /\ ~dp_ok(vec[5], 2) THEN <<"confidence_more_than_2dp">> ELSE <<>>)

\* lines 154-172
Validate ==
    /\ pc = "validate"
    /\ IF Validates
       THEN /\ errors' = errors \o RangeErrors(vector.values)
            /\ warnings' = DpWarnings(vector.values)
       ELSE UNCHANGED <<errors, warnings>>
    /\ pc' = "parity"
    /\ UNCHANGED <<msg, container, vector, pt9, p2b, report, exit_code, exc>>
    /\ UNCHANGED <<lines, idx, out, min_score, all_ok>>
    /\ UNCHANGED buildVars

\* lines 175-176: vector["values"] on vector = None raises TypeError, round()
\* on a non-finite axis raises; an uncaught exception ends the process with
\* status 1 and nothing printed
Parity ==
    /\ pc = "parity"
    /\ IF vector = None
       THEN /\ exc' = "TypeError"
            /\ pc' = "raised"
            /\ exit_code' = Some(1)
            /\ UNCHANGED <<pt9, p2b>>
       ELSE IF vector.values # None /\ ParityRaises(vector.values)
       THEN /\ exc' = (IF \E i \in 1..Len(vector.values) :
                             /\ vector.values[i].kind \in {"inf", "nan"}
                             /\ \A j \in 1..(i - 1) : vector.values[j].kind = "fin"
                             /\ vector.values[i].kind = "inf"
                       THEN "OverflowError" ELSE "ValueError")
            /\ pc' = "raised"
            /\ exit_code' = Some(1)
            /\ UNCHANGED <<pt9, p2b>>
       ELSE /\ pt9' = (IF vector.values # None THEN Some(parity_t9(vector.values)) ELSE None)
            /\ p2b' = (IF container # None /\ vector.values # None
                       THEN Some(parity2b(container.container_text, vector.values))
                       ELSE None)
            /\ pc' = "emit"
            /\ UNCHANGED <<exit_code, exc>>
    /\ UNCHANGED <<msg, container, vector, errors, warnings, report>>
    /\ UNCHANGED <<lines, idx, out, min_score, all_ok>>
    /\ UNCHANGED buildVars

\* ok that warnings spoil too
ReportOkNoWarnings(errs, warns) == Len(errs) = 0 /\ Len(warns) = 0

\* line 179
ReportOk(errs, warns) == Len(errs) = 0

\* lines 178-187: print(json.dumps(report)), sys.exit(0 if report["ok"] else 1)
Emitted(ok) ==
    /\ report' = [ok |-> ok,
                  errors |-> errors,
                  warnings |-> warnings,
                  container |-> container,
                  vector |-> vector,
                  parity |-> [t9 |-> pt9, p2b |-> p2b]]
    /\ exit_code' = Some(IF ok THEN 0 ELSE 1)

Emit ==
    /\ pc = "emit"
    /\ Emitted(ReportOk(errors, warnings))
    /\ pc' = "exited"
    /\ UNCHANGED <<msg, container, vector, errors, warnings, pt9, p2b, exc>>
    /\ UNCHANGED <<lines, idx, out, min_score, all_ok>>
    /\ UNCHANGED buildVars

Next == Parse \/ Validate \/ Parity \/ Emit

Spec == Init /\ [][Next]_vars

(***************************************************************************)
(* Lines whose containers exercise routing, action and token extraction    *)
(***************************************************************************)
TokenContainers ==
    { <<>>,
      <<"A">>,
      <<"c">>,
      <<"A", "B">>,
      <<"A", "B", "C">>,
      <<"A", "B", " ", "c">>,
      <<"A", "B", "r", "n", "0", "1">>,
      <<"f", "0", "1">>,
      <<"s", "1", "c", "@", "s", "2">>,
      <<"A", "B", "c", "t", "a", "g", ".", "x">>,
      <<"A", "B", "c", "@", "s", "3">>,
      <<"A", "B", "c", "c", "t", "a", "g", ".", "f", "0", "1">>,
      <<"A", "B", "c", "r", "n", "0", "1", "r", "n", "2", "s", ":", "a", TAU, "5", TAU, "9", "d", "0", "2">>,
      <<"A", "B", "c", TAU, "x", TAU, "0", "7">>,
      <<"A", "B", "c", "m", "1", "0", "@", "s", "1", "s", "2">>,
      <<"\t", "A", "B", "p", " ">>,
      <<"A", "B", "c", "@", "s", "3", "c", "t", "a", "g", ".", "f", "0", "1", TAU, "5", TAU, "9">> }

TokenVectors ==
    { <<"[", "0", ",", "0", ",", "0", ",", "0", "]">>,
      <<"[", "0", ".", "5", ",", "-", "1", ",", "0", ",", "1", ",", "0", ".", "2", "5", "]">>,
      <<"[", "1", ".", "5", ",", "0", ",", "0", ",", "0", "]">>,
      <<"[", "x", "]">>,
      <<"0", ",", "0", ",", "0", ",", "0">> }

TokenInit ==
    /\ \/ msg \in NoArrowLines
       \/ \E c \in TokenContainers, v \in TokenVectors : msg = c \o <<ARROW>> \o v
    /\ pc = "parse"
    /\ container = None
    /\ vector = None
    /\ errors = <<>>
    /\ warnings = <<>>
    /\ pt9 = None
    /\ p2b = None
    /\ report = None
    /\ exit_code = None
    /\ exc = ""
    /\ lines = <<>>
    /\ idx = 1
    /\ out = <<>>
    /\ min_score = None
    /\ all_ok = TRUE
    /\ BuildIdle

TokenSpec == TokenInit /\ [][Next]_vars

(***************************************************************************)
(* sjl_policy_lint.py: score_line                                          *)
(***************************************************************************)
\* ALLOWED_TOKEN_RE = ^(rn\d+|s:[a-z0-9]+|s\d+|@s\d+|[fdrm]\d{2}|ctag[...]+)$
ALLOWED_TOKEN_RE(t) ==
    /\ t # <<>>
    /\ \/ LitRun(<<"r", "n">>, "digit", t, 1) = Len(t)
       \/ LitRun(<<"s", ":">>, "lower_digit", t, 1) = Len(t)
       \/ LitRun(<<"s">>, "digit", t, 1) = Len(t)
       \/ LitRun(<<"@", "s">>, "digit", t, 1) = Len(t)
       \/ Len(t) = 3 /\ DELIV_RE(t, 1) = 3
       \/ LitRun(<<"c", "t", "a", "g">>, "ctag", t, 1) = Len(t)

\* LETTERS_UNDERSCORE_RE = ^[A-Za-z_]+$
LETTERS_UNDERSCORE_RE(t) == t # <<>> /\ RunLen("letter_underscore", t, 1) = Len(t)

\* score -= n; issues.append(tag), the token of a verbose_token issue kept apart
Deduct(acc, n, tag, token) ==
    [score |-> acc.score - n, issues |-> Append(acc.issues, [tag |-> tag, token |-> token])]

\* lines 32-34
LintSpaces(acc, left) ==
    IF Contains(left, " ") THEN Deduct(acc, 20, "spaces_in_container", <<>>) ELSE acc

\* lines 36-43
LintAction(acc, left) ==
    IF Len(left) < 3 THEN acc
    ELSE IF left[3] \notin {"c", "p", "q", "a", "e", "P"}
    THEN Deduct(acc, 10, "invalid_action_code", <<>>)
    ELSE IF IsUpper(left[3]) /\ left[3] # "P"
    THEN Deduct(acc, 10, "uppercase_action", <<>>)
    ELSE acc

\* a token of exactly 24 letters flagged too
LintTokenInclusive(acc, t) ==
    IF ~ALLOWED_TOKEN_RE(t) /\ LETTERS_UNDERSCORE_RE(t) /\ Len(t) >= 24
    THEN Deduct(acc, 10, "verbose_token", t)
    ELSE acc

\* lines 48-51
LintToken(acc, t) ==
    IF ~ALLOWED_TOKEN_RE(t) /\ LETTERS_UNDERSCORE_RE(t) /\ Len(t) > 24
    THEN Deduct(acc, 10, "verbose_token", t)
    ELSE acc

\* lines 47-51
RECURSIVE LintTokens(_, _, _)
LintTokens(acc, tokens, i) ==
    IF i > Len(tokens) THEN acc
    ELSE LintTokens(LintToken(acc, tokens[i]), tokens, i + 1)

\* lines 57-64, i the index enumerate gives
LintPart(acc, i, p) ==
    IF ~Contains(p, ".") THEN acc
    ELSE IF i < 4 /\ Len(After(p, ".")) > 1 THEN Deduct(acc, 5, "axis>1dp", <<>>)
    ELSE IF i = 4 /\ Len(After(p, ".")) > 2 THEN Deduct(acc, 3, "conf>2dp", <<>>)
    ELSE acc

RECURSIVE LintParts(_, _, _)
LintParts(acc, parts, i) ==
    IF i > Len(parts) THEN acc
    ELSE LintParts(LintPart(acc, i - 1, parts[i]), parts, i + 1)

\* lines 53-64
LintVector(acc, v) == IF Bracketed(v) THEN LintParts(acc, VectorParts(v), 1) ELSE acc

\* a score that is not floored at 0
LintFinishRaw(acc) == [score |-> acc.score, issues |-> acc.issues]

\* line 65: max(score, 0), issues
LintFinish(acc) == [score |-> IF acc.score > 0 THEN acc.score ELSE 0, issues |-> acc.issues]

\* lines 31-65, left and right the two sides of line.split(ARROW, 1)
LintSides(left, right) ==
    LintFinish(LintVector(LintTokens(LintAction(LintSpaces([score |-> 100, issues |-> <<>>],
                                                           left),
                                                left),
                                     findall("TOKEN_RE", SubSeq(left, 4, Len(left))), 1),
                          strip(right)))

\* a missing arrow counted as one more issue, the other checks still made
score_line_on(line) ==
    IF ~Contains(line, ARROW)
    THEN LintSides(line, <<>>)
    ELSE LintSides(Before(line, ARROW), After(line, ARROW))

score_line(line) ==
    IF ~Contains(line, ARROW)
    THEN [score |-> 0, issues |-> <<[tag |-> "missing_arrow", token |-> <<>>]>>]
    ELSE LintSides(Before(line, ARROW), After(line, ARROW))

(***************************************************************************)
(* sjl_policy_lint.py: main, one run over a stream of lines                *)
(***************************************************************************)
\* most lines of an input stream
MaxLines == 2

Rep(c, n) == [i \in 1..n |-> c]

LintContainers ==
    { <<"A", "B", "c">>,
      <<"A", "B", " ", "c">>,
      <<"A", "B", "c", "\t", "r", "n", "0", "1">>,
      <<"A", "B", "C">>,
      <<"A", "B", "P">>,
      <<"A", "B", "x">>,
      <<"A", "B">>,
      <<>>,
      <<"A", "B", "c">> \o Rep("x", 25),
      <<"A", "B", "c">> \o Rep("x", 24),
      <<"A", "B", "c">> \o Rep("x", 24) \o <<"1">>,
      <<"A", "B", "c">> \o Rep("x", 12) \o <<":">> \o Rep("x", 12),
      <<"A", "B", "c", "c", "t", "a", "g">> \o Rep("x", 25),
      <<"A", "B", "c">> \o Rep("x", 25) \o <<"-">> \o Rep("x", 25),
      <<" ", "A", "B", "c">> \o Rep("x", 24),
      <<"A", "B", "x", " ">> \o Rep("x", 25) \o <<" ">> \o Rep("x", 25) \o <<" ">>
          \o Rep("x", 25) \o <<" ">> \o Rep("x", 25) \o <<" ">> \o Rep("x", 25) }

LintVectors ==
    { <<"[", "0", ",", "0", ",", "0", ",", "0", "]">>,
      <<"[", "0", ".", "5", ",", "-", "1", ",", "0", ",", "1", ",", "0", ".", "2", "5", "]">>,
      <<"[", "0", ".", "2", "5", ",", "0", ",", "0", ",", "0", ".", "1", "2", "5", "]">>,
      <<"[", "0", ".", "2", "5", ",", "0", ".", "2", "5", ",", "0", ".", "2", "5", ",", "0", ".", "2", "5", ",", "0", ".", "1", "2", "5", "]">>,
      <<"[", "0", ",", "0", ",", "0", ",", "0", ",", "0", ".", "5", ",", "0", ".", "1", "2", "5", "]">>,
      <<"[", "0", ".", "2", "5", ",", ",", "0", ".", "2", "5", "]">>,
      <<" ", "[", "0", ".", "2", "5", "]", "\t">>,
      <<"0", ".", "2", "5", ",", "0", ".", "2", "5">>,
      <<"[", "0", ".", "1", "e", "0", ",", "0", ",", "0", ",", "0", "]">>,
      <<"[", "0", ",", "0", ",", "0", ",", "0", ",", "0", ".", "1", "2", "]">>,
      <<"[", "0", ",", "0", ",", "0", ",", "0", ",", "0", ".", "1", "2", "3", "]">>,
      <<"[", "0", ".", "5", "0", ",", "0", ",", "0", ",", "0", "]">>,
      <<>>,
      <<"[", "0", ".", "2", "5">> }

LintLines ==
    {c \o <<ARROW>> \o v : c \in LintContainers, v \in LintVectors}
        \cup NoArrowLines \cup {<<>>, <<" ", "\t">>}

\* the lines that may follow the first line of a stream
FollowLines ==
    { <<>>,
      <<"A", "B", "c", ARROW, "[", "0", ",", "0", ",", "0", ",", "0", "]">>,
      <<"A", "B", " ", "x", ARROW, "[", "0", ".", "2", "5", "]">> }

LintInit ==
    /\ \E l \in LintLines, n \in 1..MaxLines :
           \E follow \in [1..(n - 1) -> FollowLines] : lines = <<l>> \o follow
    /\ min_score \in {None, Some(80)}
    /\ pc = "lint"
    /\ idx = 1
    /\ out = <<>>
    /\ all_ok = TRUE
    /\ exit_code = None
    /\ msg = <<>>
    /\ container = None
    /\ vector = None
    /\ errors = <<>>
    /\ warnings = <<>>
    /\ pt9 = None
    /\ p2b = None
    /\ report = None
    /\ exc = ""
    /\ BuildIdle

\* lines 86-87: a blank line is passed over
LintSkip ==
    /\ pc = "lint"
    /\ idx <= Len(lines)
    /\ strip(lines[idx]) = <<>>
    /\ idx' = idx + 1
    /\ UNCHANGED <<lines, out, min_score, all_ok, pc, exit_code>>
    /\ UNCHANGED buildVars
    /\ UNCHANGED <<msg, container, vector, errors, warnings, pt9, p2b, report, exc>>

\* the report with all_ok following the last line alone
LintReportLast(line, r, ok) ==
    /\ all_ok' = ok
    /\ out' = Append(out, [line |-> line, ok |-> ok, score |-> r.score, issues |-> r.issues])

\* lines 89-92
LintReport(line, r, ok) ==
    /\ all_ok' = (all_ok /\ ok)
    /\ out' = Append(out, [line |-> line, ok |-> ok, score |-> r.score, issues |-> r.issues])

LintOk(r) == min_score = None \/ r.score >= min_score.some

\* lines 88-92: the loop body on a line that is not blank
LintScore ==
    /\ pc = "lint"
    /\ idx <= Len(lines)
    /\ strip(lines[idx]) # <<>>
    /\ LintReport(lines[idx], score_line(lines[idx]), LintOk(score_line(lines[idx])))
    /\ idx' = idx + 1
    /\ UNCHANGED <<lines, min_score, pc, exit_code>>
    /\ UNCHANGED buildVars
    /\ UNCHANGED <<msg, container, vector, errors, warnings, pt9, p2b, report, exc>>

\* lines 93-94: sys.exit(1) below the minimum, else the end of main
LintExit ==
    /\ pc = "lint"
    /\ idx > Len(lines)
    /\ exit_code' = Some(IF min_score # None /\ ~all_ok THEN 1 ELSE 0)
    /\ pc' = "exited"
    /\ UNCHANGED <<lines, idx, out, min_score, all_ok>>
    /\ UNCHANGED buildVars
    /\ UNCHANGED <<msg, container, vector, errors, warnings, pt9, p2b, report, exc>>

LintNext == LintSkip \/ LintScore \/ LintExit

LintSpec == LintInit /\ [][LintNext]_vars

(***************************************************************************)
(* sjl_symbolize.py: symbolize_ctag, symbolize_line                        *)
(***************************************************************************)
\* any(p in words for p in parts)
AnyIn(parts, words) == \E i \in 1..Len(parts) : parts[i] \in words

\* [p for p in re.split(r"[:_]", body) if p]
CtagParts(body) ==
    SelectSeq(split([i \in 1..Len(body) |-> IF body[i] = "_" THEN ":" ELSE body[i]], ":"),
              NonEmpty)

\* "ctag.<symbol>:<code>", the symbol written as its code point
Segment(symbol, code) == <<"c", "t", "a", "g", ".", symbol, ":">> \o code

\* lines 30-38
StatusSegment(parts) ==
    IF ~AnyIn(parts, {<<"s", "t", "a", "t", "u", "s">>, <<"u", "r", "g", "e", "n", "t">>, <<"f", "a", "i", "l", "e", "d">>, <<"r", "e", "a", "d", "y">>, <<"a", "c", "k">>})
    THEN <<>>
    ELSE IF AnyIn(parts, {<<"f", "a", "i", "l", "e", "d">>}) THEN Segment("U+03C3", <<"U+2717">>)
    ELSE IF AnyIn(parts, {<<"u", "r", "g", "e", "n", "t">>}) THEN Segment("U+03C3", <<"U+203C">>)
    ELSE IF AnyIn(parts, {<<"r", "e", "a", "d", "y">>}) THEN Segment("U+03C3", <<"U+2713">>)
    ELSE IF AnyIn(parts, {<<"a", "c", "k">>}) THEN Segment("U+03C3", <<"U+2713">>)
    ELSE <<>>

\* lines 41-42
LoopSegment(parts) ==
    IF AnyIn(parts, {<<"l", "o", "o", "p">>, <<"l", "o", "o", "p", "s">>, <<"l", "o", "o", "p", "i", "n", "g">>, <<"p", "e", "n", "d", "i", "n", "g">>})
    THEN Segment("U+03C3", <<"U+27F3">>)
    ELSE <<>>

\* lines 45-48
ImplSegment(parts) ==
    IF ~AnyIn(parts, {<<"i", "m", "p", "l">>, <<"i", "m", "p", "l", "e", "m", "e", "n", "t">>, <<"f", "i", "x">>, <<"r", "e", "p">>, <<"r", "e", "p", "e", "t", "i", "t", "i", "o", "n">>})
    THEN <<>>
    ELSE IF AnyIn(parts, {<<"r", "e", "p">>, <<"r", "e", "p", "e", "t", "i", "t", "i", "o", "n">>, <<"f", "i", "x">>})
    THEN Segment("U+03BC", <<"r", "e", "p", "_", "f", "i", "x">>)
    ELSE Segment("U+03BC", <<"i", "m", "p", "l">>)

\* lines 51-58
KnowledgeSegment(parts) ==
    IF ~AnyIn(parts, {<<"a", "s", "k">>, <<"p", "a", "r", "a", "m", "s">>, <<"p", "a", "r", "a", "m", "e", "t", "e", "r", "s">>, <<"a", "r", "c", "h", "i", "v", "e">>, <<"a", "r", "c", "h">>})
    THEN <<>>
    ELSE IF AnyIn(parts, {<<"p", "a", "r", "a", "m", "s">>, <<"p", "a", "r", "a", "m", "e", "t", "e", "r", "s">>}) /\ AnyIn(parts, {<<"a", "r", "c", "h", "i", "v", "e">>, <<"a", "r", "c", "h">>})
    THEN Segment("U+03BA", <<"p", "a", "r", "a", "m", "s", ":", "a", "r", "c", "h">>)
    ELSE IF AnyIn(parts, {<<"p", "a", "r", "a", "m", "s">>, <<"p", "a", "r", "a", "m", "e", "t", "e", "r", "s">>})
    THEN Segment("U+03BA", <<"p", "a", "r", "a", "m", "s">>)
    ELSE IF AnyIn(parts, {<<"a", "r", "c", "h", "i", "v", "e">>, <<"a", "r", "c", "h">>})
    THEN Segment("U+03BA", <<"a", "r", "c", "h">>)
    ELSE <<>>

\* the segments joined with the loop segment ahead of the status segment
out_tokensLoopFirst(parts) ==
    LoopSegment(parts) \o StatusSegment(parts) \o ImplSegment(parts) \o KnowledgeSegment(parts)

\* "".join(out_tokens)
out_tokens(parts) ==
    StatusSegment(parts) \o LoopSegment(parts) \o ImplSegment(parts) \o KnowledgeSegment(parts)

\* the joined segments without the fallback to the token
OrTokenJoined(joined, token) == joined

\* line 62: "".join(out_tokens) or token
OrToken(joined, token) == IF joined = <<>> THEN token ELSE joined

symbolize_ctag(token) == OrToken(out_tokens(CtagParts(SubSeq(token, 6, Len(token)))), token)

\* CTAG_RE.sub(repl, line) from position i on: a match of n characters is
\* replaced, another character is copied
SubStep(line, i, n) ==
    IF n > 0 THEN symbolize_ctag(SubSeq(line, i, i + n - 1)) ELSE <<line[i]>>

RECURSIVE SubFrom(_, _)
SubFrom(line, i) ==
    IF i > Len(line) THEN <<>>
    ELSE SubStep(line, i, MatchLen("SYM_CTAG_RE", line, i))
         \o SubFrom(line, FindAllNext(i, MatchLen("SYM_CTAG_RE", line, i)))

symbolize_line(line) == SubFrom(line, 1)

(***************************************************************************)
(* sjl_symbolize.py: run, one run over a stream of lines                   *)
(***************************************************************************)
SymLines ==
    { <<"A", "B", "c", "c", "t", "a", "g", ".", "f", "a", "i", "l", "e", "d", "_", "f", "i", "x", ARROW, "[", "0", ",", "0", ",", "0", ",", "0", "]">>,
      <<"A", "B", "c", "c", "t", "a", "g", ".", "s", "t", "a", "t", "u", "s", ":", "f", "a", "i", "l", "e", "d", "_", "l", "o", "o", "p", "s", ARROW, "[", "0", ",", "0", ",", "0", ",", "0", "]">>,
      <<"A", "B", "c", "c", "t", "a", "g", ".", "r", "e", "a", "d", "y", "_", "p", "a", "r", "a", "m", "s", "_", "a", "r", "c", "h", ARROW, "[", "0", ",", "0", ",", "0", ",", "0", "]">>,
      <<"A", "B", "c", "c", "t", "a", "g", ".", "a", "s", "k", ARROW, "[", "0", ",", "0", ",", "0", ",", "0", "]">>,
      <<"A", "B", "c", "c", "t", "a", "g", ".", "u", "r", "g", "e", "n", "t", TAU, "5", ARROW, "[", "0", ",", "0", ",", "0", ",", "0", "]">>,
      <<"A", "B", "c", "c", "t", "a", "g", ".", "a", "c", "k", ARROW, "[", "0", ",", "0", ",", "0", ",", "0", "]">>,
      <<"A", "B", "c", "c", "t", "a", "g", ".", "p", "e", "n", "d", "i", "n", "g", ARROW, "[", "0", ",", "0", ",", "0", ",", "0", "]">>,
      <<"A", "B", "c", "c", "t", "a", "g", ".", "i", "m", "p", "l", "e", "m", "e", "n", "t", ARROW, "[", "0", ",", "0", ",", "0", ",", "0", "]">>,
      <<"A", "B", "c", "c", "t", "a", "g", ".", "i", "m", "p", "l", "_", "f", "i", "x", ARROW, "[", "0", ",", "0", ",", "0", ",", "0", "]">>,
      <<"A", "B", "c", "c", "t", "a", "g", ".", "r", "e", "p", "e", "t", "i", "t", "i", "o", "n", ARROW, "[", "0", ",", "0", ",", "0", ",", "0", "]">>,
      <<"A", "B", "c", "c", "t", "a", "g", ".", "p", "a", "r", "a", "m", "e", "t", "e", "r", "s", ARROW, "[", "0", ",", "0", ",", "0", ",", "0", "]">>,
      <<"A", "B", "c", "c", "t", "a", "g", ".", "a", "r", "c", "h", "i", "v", "e", ":", "a", "s", "k", ARROW, "[", "0", ",", "0", ",", "0", ",", "0", "]">>,
      <<"A", "B", "c", "c", "t", "a", "g", ".", "s", "t", "a", "t", "u", "s", ARROW, "[", "0", ",", "0", ",", "0", ",", "0", "]">>,
      <<"A", "B", "c", "c", "t", "a", "g", ".", "F", "A", "I", "L", "E", "D", ARROW, "[", "0", ",", "0", ",", "0", ",", "0", "]">>,
      <<"A", "B", "c", "r", "n", "0", "1", ARROW, "[", "0", ",", "0", ",", "0", ",", "0", "]">>,
      <<"A", "B", "c", "c", "t", "a", "g", ".", ARROW, "[", "0", ",", "0", ",", "0", ",", "0", "]">>,
      <<"A", "B", "c", "c", "t", "a", "g", ".", "f", "i", "x", "[", "0", ",", "0", ",", "0", ",", "0", "]">>,
      <<"A", "B", "c", "c", "t", "a", "g", ".", "f", "i", "x", TAU, "5", "c", "t", "a", "g", ".", "u", "r", "g", "e", "n", "t", "_", "r", "e", "a", "d", "y", ARROW, "[", "0", ",", "0", ",", "0", ",", "0", "]">>,
      <<"A", "B", "c", "c", "t", "a", "g", ".", "r", "e", "a", "d", "y", " ", "c", "t", "a", "g", ".", "f", "a", "i", "l", "e", "d", ARROW, "[", "0", ",", "0", ",", "0", ",", "0", "]">>,
      <<"A", "B", "c", "c", "t", "a", "g", ":", "f", "a", "i", "l", "e", "d", ARROW, "[", "0", ",", "0", ",", "0", ",", "0", "]">>,
      <<"A", "B", "c", "c", "t", "a", "g", ".", "l", "o", "o", "p", ":", "l", "o", "o", "p", "i", "n", "g", "_", "r", "e", "p", ARROW, "[", "0", ",", "0", ",", "0", ",", "0", "]">>,
      <<"A", "B", "c", "c", "t", "a", "g", ".", "a", "r", "c", "h", ":", "p", "a", "r", "a", "m", "s", ARROW, "[", "0", ",", "0", ",", "0", ",", "0", "]">>,
      <<"A", "B", "c", "c", "t", "a", "g", ".", "a", "s", "k", TAU, "5", "c", "t", "a", "g", ".", "f", "a", "i", "l", "e", "d", ARROW, "[", "0", ",", "0", ",", "0", ",", "0", "]">>,
      <<"A", "B", "c", "c", "t", "a", "g", ".", "f", "a", "i", "l", "e", "d", "_", "r", "n", "0", "1", ARROW, "[", "0", ",", "0", ",", "0", ",", "0", "]">>,
      <<"A", "B", "c", "c", "t", "a", "g", ".", "r", "e", "a", "d", "y", "_", "s", "1", "_", "f", "0", "1", ARROW, "[", "0", ",", "0", ",", "0", ",", "0", "]">>,
      <<"A", "B", "c", "c", "t", "a", "g", ".", "p", "a", "r", "a", "m", "e", "t", "e", "r", "s", "_", "f", "i", "x", "_", "p", "e", "n", "d", "i", "n", "g", "_", "a", "c", "k", ARROW, "[", "0", ",", "0", ",", "0", ",", "0", "]">>,
      <<"j", "u", "s", "t", " ", "t", "e", "x", "t">>,
      <<" ", "\t">> }

SymInit ==
    /\ \E l \in SymLines, n \in 1..MaxLines :
           \E follow \in [1..(n - 1) -> FollowLines] : lines = <<l>> \o follow
    /\ pc = "symbolize"
    /\ idx = 1
    /\ out = <<>>
    /\ min_score = None
    /\ all_ok = TRUE
    /\ exit_code = None
    /\ msg = <<>>
    /\ container = None
    /\ vector = None
    /\ errors = <<>>
    /\ warnings = <<>>
    /\ pt9 = None
    /\ p2b = None
    /\ report = None
    /\ exc = ""
    /\ BuildIdle

\* the loop body with the blank lines passed over instead of printed
SymLineSkipBlank ==
    /\ pc = "symbolize"
    /\ idx <= Len(lines)
    /\ out' = IF strip(lines[idx]) = <<>> THEN out ELSE Append(out, symbolize_line(lines[idx]))
    /\ idx' = idx + 1
    /\ UNCHANGED <<lines, min_score, all_ok, pc, exit_code>>
    /\ UNCHANGED buildVars
    /\ UNCHANGED <<msg, container, vector, errors, warnings, pt9, p2b, report, exc>>

\* lines 74-82: the loop body; symbolize_line has no failing step, so the
\* except branch is never taken
SymLine ==
    /\ pc = "symbolize"
    /\ idx <= Len(lines)
    /\ out' = Append(out, IF strip(lines[idx]) = <<>> THEN lines[idx]
                          ELSE symbolize_line(lines[idx]))
    /\ idx' = idx + 1
    /\ UNCHANGED <<lines, min_score, all_ok, pc, exit_code>>
    /\ UNCHANGED buildVars
    /\ UNCHANGED <<msg, container, vector, errors, warnings, pt9, p2b, report, exc>>

\* the end of the stream ends run and the process
SymExit ==
    /\ pc = "symbolize"
    /\ idx > Len(lines)
    /\ exit_code' = Some(0)
    /\ pc' = "exited"
    /\ UNCHANGED <<lines, idx, out, min_score, all_ok>>
    /\ UNCHANGED buildVars
    /\ UNCHANGED <<msg, container, vector, errors, warnings, pt9, p2b, report, exc>>

SymNext == SymLine \/ SymExit

SymSpec == SymInit /\ [][SymNext]_vars

(***************************************************************************)
(* shimmer_cli.py: extract_container_line                                  *)
(* build_training_data.py: normalize_container, validate_shimmer, run_once *)
(***************************************************************************)
\* "\n".join(lines): a text is modelled as text.splitlines()
RECURSIVE JoinNl(_)
JoinNl(text) ==
    IF text = <<>> THEN <<>>
    ELSE IF Len(text) = 1 THEN text[1]
    ELSE text[1] \o <<"\n">> \o JoinNl(Tail(text))

\* lit in s
HasInfix(s, lit) == \E i \in 1..Len(s) : StartsAt(s, i, lit)

\* shimmer_cli.py lines 142-146: the first line that holds "→[" and "]",
\* trimmed, else the whole text trimmed
extract_container_line(text) ==
    IF \E i \in 1..Len(text) : HasInfix(text[i], <<ARROW, "[">>) /\ Contains(text[i], "]")
    THEN strip(text[CHOOSE i \in 1..Len(text) :
                        /\ HasInfix(text[i], <<ARROW, "[">>) /\ Contains(text[i], "]")
                        /\ \A j \in 1..(i - 1) :
                               ~(HasInfix(text[j], <<ARROW, "[">>) /\ Contains(text[j], "]"))])
    ELSE strip(JoinNl(text))

\* s.replace(old, new), old not empty: the leftmost occurrence is replaced,
\* then the occurrences in the text after it
RECURSIVE Replace(_, _, _)
Replace(s, old, new) ==
    IF ~HasInfix(s, old) THEN s
    ELSE LET i == CHOOSE k \in 1..Len(s) :
                      StartsAt(s, k, old) /\ \A j \in 1..(k - 1) : ~StartsAt(s, j, old)
         IN SubSeq(s, 1, i - 1) \o new \o Replace(SubSeq(s, i + Len(old), Len(s)), old, new)

\* the backtick, written as its code point
TICK == "U+0060"

\* s.strip(TICK)
StripTicks(s) ==
    IF \A i \in 1..Len(s) : s[i] = TICK THEN <<>>
    ELSE SubSeq(s, CHOOSE i \in 1..Len(s) : s[i] # TICK /\ \A j \in 1..(i - 1) : s[j] = TICK,
                   CHOOSE i \in 1..Len(s) : s[i] # TICK /\ \A j \in (i + 1)..Len(s) : s[j] = TICK)

\* lines 106-108
NormalizeFences(text) ==
    IF StartsAt(text, 1, <<TICK, TICK, TICK>>)
    THEN Replace(Replace(StripTicks(text), <<"j", "s", "o", "n", "\n">>, <<>>),
                 <<"J", "S", "O", "N", "\n">>, <<>>)
    ELSE text

\* line 110
NormalizeArrows(text) ==
    Replace(Replace(Replace(text, <<"\\", "u", "2", "1", "9", "2">>, <<ARROW>>),
                    <<"u", "2", "1", "9", "2">>, <<ARROW>>),
            <<"-", ">">>, <<ARROW>>)

\* lines 111-115
NormalizeSides(text) ==
    IF ~Contains(text, ARROW) THEN text
    ELSE Replace(Before(text, ARROW), <<" ">>, <<>>) \o <<ARROW>> \o strip(After(text, ARROW))

\* lines 96-115
normalize_container(line) ==
    IF line = <<>> THEN line
    ELSE NormalizeSides(NormalizeArrows(NormalizeFences(strip(line))))

\* line 122, on the result of parse_shimmer
ValidateResult(r) ==
    [ok |-> /\ r.errs = <<>>
            /\ r.vector # None
            /\ r.vector.values # None
            /\ Len(r.vector.values) \in {4, 5},
     errs |-> r.errs]

\* lines 118-123, compliance_check imported
validate_shimmer(line) == ValidateResult(parse_message(line))

\* what the provider may answer to a prompt, as the lines of its text
Responses ==
    { <<<<"A", "B", "c", ARROW, "[", "0", ",", "0", ",", "0", ",", "0", "]">>>>,
      <<<<"S", "u", "r", "e", ":">>,
        <<" ", "A", "B", "c", ARROW, "[", "2", ",", "0", ",", "0", ",", "0", "]">>>>,
      <<<<" ", "A", "B", " ", "c", " ", "-", ">", " ", "[", "0", ",", "0", ",", "0", ",", "0", ",", "0", ".", "5", "]", " ">>>>,
      <<<<TICK, TICK, TICK, "A", "B", "c", "u", "2", "1", "9", "2", "[", "0", ".", "2", "5", ",", "0", ".", "2", "5", ",", "0", ",", "0", "]", TICK, TICK, TICK>>>>,
      <<<<"A", "B", "x", ARROW, "[", "0", ",", "0", ",", "0", "]">>>>,
      <<<<"j", "u", "s", "t", " ", "t", "e", "x", "t">>>>,
      <<>> }

\* the threshold of --min-compactness in the runs explored
MinCompactness == 95

BuildInit ==
    /\ pc = "author"
    /\ validate \in BOOLEAN
    /\ min_compactness \in {None, Some(MinCompactness)}
    /\ shimmer_line = None
    /\ stats = None
    /\ calls = <<>>
    /\ msg = <<>>
    /\ container = None
    /\ vector = None
    /\ errors = <<>>
    /\ warnings = <<>>
    /\ pt9 = None
    /\ p2b = None
    /\ report = None
    /\ exit_code = None
    /\ exc = ""
    /\ lines = <<>>
    /\ idx = 1
    /\ out = <<>>
    /\ min_score = None
    /\ all_ok = TRUE

\* lines 144-159: the first call of the provider and the initial stats
Author ==
    /\ pc = "author"
    /\ \E text \in Responses :
           shimmer_line' = normalize_container(extract_container_line(text))
    /\ stats' = [validated |-> FALSE, validation_errors |-> <<>>,
                 compactness |-> None, compactness_issues |-> <<>>]
    /\ calls' = Append(calls, "author")
    /\ pc' = "check"
    /\ UNCHANGED <<validate, min_compactness>>
    /\ UNCHANGED <<msg, container, vector, errors, warnings, pt9, p2b, report, exit_code, exc>>
    /\ UNCHANGED <<lines, idx, out, min_score, all_ok>>

\* lines 163-164 and 176-177
SetValidation(line, r) ==
    /\ shimmer_line' = line
    /\ stats' = [stats EXCEPT !.validated = r.ok, !.validation_errors = r.errs]

\* lines 161-165
ValidateFirst ==
    /\ pc = "check"
    /\ IF validate
       THEN /\ SetValidation(shimmer_line, validate_shimmer(shimmer_line))
            /\ pc' = IF validate_shimmer(shimmer_line).ok THEN "score" ELSE "nudge"
       ELSE /\ UNCHANGED <<shimmer_line, stats>>
            /\ pc' = "score"
    /\ UNCHANGED <<validate, min_compactness, calls>>
    /\ UNCHANGED <<msg, container, vector, errors, warnings, pt9, p2b, report, exit_code, exc>>
    /\ UNCHANGED <<lines, idx, out, min_score, all_ok>>

\* lines 166-177: the second call, with the stronger prompt, validated again
ValidateRetry ==
    /\ pc = "nudge"
    /\ \E text \in Responses :
           SetValidation(normalize_container(extract_container_line(text)),
                         validate_shimmer(normalize_container(extract_container_line(text))))
    /\ calls' = Append(calls, "nudge")
    /\ pc' = "score"
    /\ UNCHANGED <<validate, min_compactness>>
    /\ UNCHANGED <<msg, container, vector, errors, warnings, pt9, p2b, report, exit_code, exc>>
    /\ UNCHANGED <<lines, idx, out, min_score, all_ok>>

\* lines 181-182 and 194-195
SetCompactness(line, r) ==
    /\ shimmer_line' = line
    /\ stats' = [stats EXCEPT !.compactness = Some(r.score), !.compactness_issues = r.issues]

\* lines 179-183, sjl_policy_lint imported
Score ==
    /\ pc = "score"
    /\ SetCompactness(shimmer_line, score_line(shimmer_line))
    /\ pc' = IF min_compactness # None /\ score_line(shimmer_line).score < min_compactness.some
             THEN "compact" ELSE "gloss"
    /\ UNCHANGED <<validate, min_compactness, calls>>
    /\ UNCHANGED <<msg, container, vector, errors, warnings, pt9, p2b, report, exit_code, exc>>
    /\ UNCHANGED <<lines, idx, out, min_score, all_ok>>

\* lines 184-195: the third call, with the compactness prompt, scored again
CompactRetry ==
    /\ pc = "compact"
    /\ \E text \in Responses :
           SetCompactness(normalize_container(extract_container_line(text)),
                          score_line(normalize_container(extract_container_line(text))))
    /\ calls' = Append(calls, "compact")
    /\ pc' = "gloss"
    /\ UNCHANGED <<validate, min_compactness>>
    /\ UNCHANGED <<msg, container, vector, errors, warnings, pt9, p2b, report, exit_code, exc>>
    /\ UNCHANGED <<lines, idx, out, min_score, all_ok>>

\* lines 197-212: the gloss call, which changes neither the line nor the
\* stats, and the return
Return ==
    /\ pc = "gloss"
    /\ calls' = Append(calls, "gloss")
    /\ pc' = "returned"
    /\ UNCHANGED <<shimmer_line, stats, validate, min_compactness>>
    /\ UNCHANGED <<msg, container, vector, errors, warnings, pt9, p2b, report, exit_code, exc>>
    /\ UNCHANGED <<lines, idx, out, min_score, all_ok>>

BuildNext == Author \/ ValidateFirst \/ ValidateRetry \/ Score \/ CompactRetry \/ Return

BuildSpec == BuildInit /\ [][BuildNext]_vars

(***************************************************************************)
(* Properties                                                              *)
(***************************************************************************)
Count(seq, e) == Cardinality({i \in 1..Len(seq) : seq[i] = e})

Has(seq, e) == \E i \in 1..Len(seq) : seq[i] = e

\* main has left the parse step of a line that holds the arrow
ParsedLine == pc # "parse" /\ container # None

\* position of the first arrow of msg
FirstArrow == CHOOSE k \in 1..Len(msg) : msg[k] = ARROW /\ \A j \in 1..(k - 1) : msg[j] # ARROW

\* the text between the brackets of the raw vector text, cut at the commas,
\* each part trimmed, the empty ones dropped
WrittenParts == SelectSeq(StripAll(split(SubSeq(vector.raw, 2, Len(vector.raw) - 1), ",")), NonEmpty)

IsBracketed == Len(vector.raw) >= 2 /\ vector.raw[1] = "[" /\ vector.raw[Len(vector.raw)] = "]"

\* digits written after the decimal point of a literal
WrittenDp(lit) == IF Contains(lit, ".") THEN Len(lit) - Find(lit, {"."}) ELSE 0

VectorErrorKinds == {"vector_brackets_missing", "vector_parse_error", "vector_arity_not_4_or_5"}

IsVectorError(e) == e \in VectorErrorKinds

ContainerErrorKinds == {"bad_routing_prefix", "bad_action_code", "bad_temporal_number"}

IsContainerError(e) == e \in ContainerErrorKinds

\* the parse left no error: main went on to the range and quantization checks
Validated ==
    /\ pc \in {"parity", "emit", "exited", "raised"}
    /\ vector # None
    /\ vector.values # None
    /\ \A i \in 1..Len(errors) : errors[i] = "vector_out_of_range"

MinusOne == float(<<"-", "1">>)

Zero == float(<<"0">>)

PlusOne == float(<<"1">>)

\* axis i (from 1) of the decoded vector lies outside its range, [-1, 1] for
\* the first four and [0, 1] for the fifth
OutsideExact(i) ==
    IF i <= 4 THEN ~(FloatLe(MinusOne, vector.values[i]) /\ FloatLe(vector.values[i], PlusOne))
    ELSE ~(FloatLe(Zero, vector.values[i]) /\ FloatLe(vector.values[i], PlusOne))

\* the same with each end of the range widened by 1e-9
OutsideWithTolerance(i) ==
    IF i <= 4
    THEN ~(/\ FloatLe(float(<<"-", "1", ".", "0", "0", "0", "0", "0", "0", "0", "0", "1">>),
                      vector.values[i])
           /\ FloatLe(vector.values[i],
                      float(<<"1", ".", "0", "0", "0", "0", "0", "0", "0", "0", "1">>)))
    ELSE ~(/\ FloatLe(float(<<"-", "1", "e", "-", "9">>), vector.values[i])
           /\ FloatLe(vector.values[i],
                      float(<<"1", ".", "0", "0", "0", "0", "0", "0", "0", "0", "1">>)))

\* C1: main prints a report for every line and exits 0 if ok, 1 otherwise; no
\* run ends through an uncaught exception with nothing printed.
C1_AlwaysReports ==
    /\ pc # "raised"
    /\ exit_code # None => /\ report # None
                           /\ exit_code = Some(IF report.ok THEN 0 ELSE 1)

\* C2: parse_message returns for every line; without an arrow the result is the
\* single error missing_arrow_separator and neither container nor vector; with
\* one, the line is cut at its first arrow and both sides are trimmed.
C2_ParseTotal ==
    pc = "validate" =>
        /\ exc = ""
        /\ IF \A k \in 1..Len(msg) : msg[k] # ARROW
           THEN /\ container = None
                /\ vector = None
                /\ errors = <<"missing_arrow_separator">>
           ELSE /\ container # None
                /\ vector # None
                /\ container.container_text = strip(SubSeq(msg, 1, FirstArrow - 1))
                /\ vector.raw = strip(SubSeq(msg, FirstArrow + 1, Len(msg)))
                /\ ~Has(errors, "missing_arrow_separator")

\* a line with two arrows and blanks around the container has been parsed
C2_Witness ==
    /\ pc = "validate"
    /\ container # None
    /\ Contains(vector.raw, ARROW)
    /\ Len(container.container_text) < FirstArrow - 1

\* C3: in every report ok is true exactly when errors is empty, and the exit
\* status is 0 exactly when ok; warnings and parity play no part.
C3_OkIffNoErrors ==
    report # None =>
        /\ report.ok <=> (report.errors = <<>>)
        /\ (exit_code = Some(0)) <=> report.ok

\* a report with quantization warnings, ok and exit status 0
C3_Witness ==
    /\ report # None
    /\ report.warnings # <<>>
    /\ report.parity.t9 # None
    /\ report.ok
    /\ exit_code = Some(0)

\* C4: a routing, an action code and five literals, the first four in [-1, 1]
\* with at most 1 digit written after the point, the fifth in [0, 1] with at
\* most 2, give ok, no errors and no warnings.
C4_ValidMessageClean ==
    ( /\ ParsedLine
      /\ pc \in {"exited", "raised"}
      /\ container.routing # <<>>
      /\ container.action # <<>>
      /\ vector.values # None
      /\ Len(WrittenParts) = 5
      /\ \A i \in 1..5 : ~OutsideExact(i)
      /\ \A i \in 1..4 : WrittenDp(WrittenParts[i]) <= 1
      /\ WrittenDp(WrittenParts[5]) <= 2 )
    => /\ report # None
       /\ report.ok
       /\ report.errors = <<>>
       /\ report.warnings = <<>>

\* C5: the vector block yields either 4 or 5 values and no vector error, or no
\* values and one vector error: brackets first, then a part that is no number,
\* then the count of the non-empty parts.
C5_VectorAllOrNothing ==
    (pc = "validate" /\ container # None) =>
        LET vErrs == SelectSeq(errors, IsVectorError)
        IN IF ~IsBracketed
           THEN vector.values = None /\ vErrs = <<"vector_brackets_missing">>
           ELSE IF \E i \in 1..Len(WrittenParts) : float(WrittenParts[i]).kind = "err"
           THEN vector.values = None /\ vErrs = <<"vector_parse_error">>
           ELSE IF Len(WrittenParts) \notin {4, 5}
           THEN vector.values = None /\ vErrs = <<"vector_arity_not_4_or_5">>
           ELSE /\ vector.values # None
                /\ Len(vector.values) = Len(WrittenParts)
                /\ vErrs = <<>>

\* an arity error for a text that holds an out-of-range literal and an empty part
C5_Witness ==
    /\ pc = "validate"
    /\ container # None
    /\ vector.values = None
    /\ Has(errors, "vector_arity_not_4_or_5")
    /\ Has(WrittenParts, <<"1", ".", "5">>)
    /\ Len(split(vector.raw, ",")) > Len(WrittenParts)

\* C6 as claimed: vector_out_of_range is reported once if an axis lies outside
\* [-1, 1] (the fifth outside [0, 1]) and not at all otherwise.
C6_RangeErrorExact ==
    Validated =>
        Count(errors, "vector_out_of_range")
            = IF \E i \in 1..Len(vector.values) : OutsideExact(i) THEN 1 ELSE 0

\* C6 amended: vector_out_of_range is reported once if an axis lies outside its
\* range widened by 1e-9 at each end (a NaN lies outside), however many axes
\* offend, and not at all otherwise.
C6_RangeErrorWithTolerance ==
    Validated =>
        Count(errors, "vector_out_of_range")
            = IF \E i \in 1..Len(vector.values) : OutsideWithTolerance(i) THEN 1 ELSE 0

\* the first axis and the confidence both out of range, and one error
C6_Witness ==
    /\ Validated
    /\ Len(vector.values) = 5
    /\ OutsideExact(1)
    /\ OutsideExact(5)
    /\ errors = <<"vector_out_of_range">>

\* C7: with a container error and a decoded vector, the report still carries
\* the range error and the quantization warnings that the checks of main give
\* for that vector.
C7_AllProblemsInOnePass ==
    ( /\ report # None
      /\ \E i \in 1..Len(report.errors) : IsContainerError(report.errors[i])
      /\ vector.values # None )
    => /\ RangeErrors(vector.values) # <<>> => Has(report.errors, "vector_out_of_range")
       /\ \A i \in 1..Len(DpWarnings(vector.values)) :
              Has(report.warnings, DpWarnings(vector.values)[i])

\* C8: the quantization check counts the digits written in the literal: more
\* than 1 on one of the first four axes gives vector_axis_more_than_1dp, more
\* than 2 on the fifth gives confidence_more_than_2dp.
C8_WrittenDigitsCounted ==
    Validated =>
        /\ (\E i \in 1..4 : WrittenDp(WrittenParts[i]) > 1)
               => Has(warnings, "vector_axis_more_than_1dp")
        /\ (Len(WrittenParts) = 5 /\ WrittenDp(WrittenParts[5]) > 2)
               => Has(warnings, "confidence_more_than_2dp")

\* C9: each quantization warning appears at most once in the warnings list.
C9_WarningsAggregate ==
    /\ Count(warnings, "vector_axis_more_than_1dp") <= 1
    /\ Count(warnings, "confidence_more_than_2dp") <= 1

\* round(10 * axis) for the first four axes, round(100 * axis) for the fifth
Scaled(i) == round(TimesPow10(vector.values[i], IF i <= 4 THEN 1 ELSE 2))

ScaledSum ==
    Scaled(1) + Scaled(2) + Scaled(3) + Scaled(4) + (IF Len(vector.values) = 5 THEN Scaled(5) ELSE 0)

\* the r in 0..(n-1) with a - r a multiple of n
Residue(a, n) == CHOOSE r \in 0..(n - 1) : (a - r) % n = 0

Bit(a, i) == (a \div (2 ^ i)) % 2

\* exclusive or of two bytes, bit by bit
ByteXor(a, b) ==
    LET b0 == IF Bit(a, 0) # Bit(b, 0) THEN 1 ELSE 0
        b1 == IF Bit(a, 1) # Bit(b, 1) THEN 2 ELSE 0
        b2 == IF Bit(a, 2) # Bit(b, 2) THEN 4 ELSE 0
        b3 == IF Bit(a, 3) # Bit(b, 3) THEN 8 ELSE 0
        b4 == IF Bit(a, 4) # Bit(b, 4) THEN 16 ELSE 0
        b5 == IF Bit(a, 5) # Bit(b, 5) THEN 32 ELSE 0
        b6 == IF Bit(a, 6) # Bit(b, 6) THEN 64 ELSE 0
        b7 == IF Bit(a, 7) # Bit(b, 7) THEN 128 ELSE 0
    IN b0 + b1 + b2 + b3 + b4 + b5 + b6 + b7

\* C10: once the parity of a decoded vector is computed, parity_t9 is the sum
\* of the scaled axes mod 4 and parity_2b is (first hash byte XOR (sum mod 256))
\* mod 4, both in 0..3, also for a negative sum.
C10_ParityFormula ==
    (pc \in {"emit", "exited"} /\ vector.values # None) =>
        /\ pt9 # None
        /\ p2b # None
        /\ pt9.some = Residue(ScaledSum, 4)
        /\ p2b.some = Residue(ByteXor(Sha256Byte0(container.container_text),
                                      Residue(ScaledSum, 256)), 4)
        /\ pt9.some \in 0..3
        /\ p2b.some \in 0..3

\* parity computed for a vector whose sum is negative and no multiple of 4
C10_Witness ==
    /\ pc = "exited"
    /\ vector.values # None
    /\ ScaledSum < 0
    /\ pt9.some # 0

\* the text left of the first arrow of msg, trimmed
TrimmedContainer == strip(SubSeq(msg, 1, FirstArrow - 1))

\* C11: for a line with an arrow the routing is the first 2 characters of the
\* trimmed container or empty, empty exactly when bad_routing_prefix is
\* reported, which is when the trimmed container has fewer than 2 characters;
\* the action is one of c, p, a, q, P, e or empty, empty exactly when
\* bad_action_code is reported.
C11_RoutingAndAction ==
    ParsedLine =>
        /\ IF Len(TrimmedContainer) < 2
           THEN container.routing = <<>>
           ELSE container.routing = SubSeq(TrimmedContainer, 1, 2)
        /\ (container.routing = <<>>) <=> Has(errors, "bad_routing_prefix")
        /\ \/ container.action = <<>>
           \/ \E a \in {"c", "p", "a", "q", "P", "e"} : container.action = <<a>>
        /\ (container.action = <<>>) <=> Has(errors, "bad_action_code")

\* a trimmed container of the single character c: no routing, yet an action
C11_Witness ==
    /\ ParsedLine
    /\ Len(TrimmedContainer) = 1
    /\ container.routing = <<>>
    /\ container.action = <<"c">>
    /\ Has(errors, "bad_routing_prefix")
    /\ ~Has(errors, "bad_action_code")

\* where the metadata scan starts in the trimmed container: right after the
\* routing, or one further when the character there is an action code
ScanStart ==
    IF /\ Len(TrimmedContainer) > Len(container.routing)
       /\ TrimmedContainer[Len(container.routing) + 1] \in {"c", "p", "a", "q", "P", "e"}
    THEN Len(container.routing) + 2
    ELSE Len(container.routing) + 1

ScannedText == SubSeq(TrimmedContainer, ScanStart, Len(TrimmedContainer))

\* position of the first TAU of a text that a digit follows, 0 when there is none
FirstTemporal(text) ==
    IF \E p \in 1..(Len(text) - 1) : text[p] = TAU /\ IsDigit(text[p + 1])
    THEN CHOOSE p \in 1..(Len(text) - 1) :
             /\ text[p] = TAU /\ IsDigit(text[p + 1])
             /\ \A q \in 1..(p - 1) : ~(text[q] = TAU /\ IsDigit(text[q + 1]))
    ELSE 0

\* C12: the token lists and the deadline are those of the remainder after the
\* routing, its first character included when that is no action code and
\* dropped when it is; the routing is never scanned.
C12_ScanFromAction ==
    ParsedLine =>
        /\ ScanStart > Len(container.routing)
        /\ container.tokens.rn = findall("RN_RE", ScannedText)
        /\ container.tokens.session = findall("S_RE", ScannedText)
        /\ container.tokens.shard = findall("SHARD_RE", ScannedText)
        /\ container.tokens.ctag = findall("CTAG_RE", ScannedText)
        /\ container.tokens.deliverables = findall("DELIV_RE", ScannedText)
        /\ (container.deadline_seconds = None) <=> (FirstTemporal(ScannedText) = 0)

\* no action code after the routing, and the character there opens a token
C12_Witness ==
    /\ ParsedLine
    /\ container.routing = <<"A", "B">>
    /\ container.action = <<>>
    /\ Len(TrimmedContainer) > 2
    /\ TrimmedContainer[3] = "r"
    /\ container.tokens.rn = <<SubSeq(TrimmedContainer, 3, Len(TrimmedContainer))>>

\* the tokens of list occur in text in that order, one after the other
RECURSIVE InOrder(_, _, _)
InOrder(list, text, from) ==
    \/ list = <<>>
    \/ \E p \in from..Len(text) :
           /\ StartsAt(text, p, Head(list))
           /\ InOrder(Tail(list), text, p + Len(Head(list)))

\* number of positions of text where the named pattern matches
MatchCount(re, text) == Cardinality({p \in 1..Len(text) : MatchLen(re, text, p) > 0})

\* the digits that follow position p of text
DigitsAfter(text, p) == SubSeq(text, p + 1, p + RunLen("digit", text, p + 1))

\* C13: the five families are matched independently over the scanned text: a
\* shard token @sN also gives the session token sN, a deliverable-shaped
\* substring of a ctag token is also a deliverable, every match of rn, shard
\* and deliverables is listed, each list is in order of appearance, and the
\* deadline is the integer after the first temporal marker.
C13_FamiliesIndependent ==
    ParsedLine =>
        /\ \A i \in 1..Len(container.tokens.shard) :
               Has(container.tokens.session, Tail(container.tokens.shard[i]))
        /\ \A i \in 1..Len(container.tokens.ctag) :
               \A j \in 1..(Len(container.tokens.ctag[i]) - 2) :
                   DELIV_RE(container.tokens.ctag[i], j) > 0
                       => Has(container.tokens.deliverables,
                              SubSeq(container.tokens.ctag[i], j, j + 2))
        /\ Len(container.tokens.rn) = MatchCount("RN_RE", ScannedText)
        /\ Len(container.tokens.shard) = MatchCount("SHARD_RE", ScannedText)
        /\ Len(container.tokens.deliverables) = MatchCount("DELIV_RE", ScannedText)
        /\ InOrder(container.tokens.rn, ScannedText, 1)
        /\ InOrder(container.tokens.session, ScannedText, 1)
        /\ InOrder(container.tokens.shard, ScannedText, 1)
        /\ InOrder(container.tokens.ctag, ScannedText, 1)
        /\ InOrder(container.tokens.deliverables, ScannedText, 1)
        /\ container.deadline_seconds
               = IF FirstTemporal(ScannedText) = 0 THEN None
                 ELSE Some(NatOf(DigitsAfter(ScannedText, FirstTemporal(ScannedText))))

\* a shard token with its session twin, a deliverable inside a ctag token and
\* two temporal markers of which the first gives the deadline
C13_Witness ==
    /\ ParsedLine
    /\ container.tokens.shard = <<<<"@", "s", "3">>>>
    /\ container.tokens.session = <<<<"s", "3">>>>
    /\ container.tokens.ctag = <<<<"c", "t", "a", "g", ".", "f", "0", "1">>>>
    /\ container.tokens.deliverables = <<<<"f", "0", "1">>>>
    /\ MatchCount("TEMP_RE", ScannedText) = 2
    /\ container.deadline_seconds = Some(5)

(***************************************************************************)
(* Properties of the linter                                                *)
(***************************************************************************)
\* number of issues of a report that carry the tag
TagCount(o, tag) == Cardinality({i \in 1..Len(out[o].issues) : out[o].issues[i].tag = tag})

HasArrow(o) == Contains(out[o].line, ARROW)

\* the text left and right of the first arrow of a reported line
LeftOf(o) == Before(out[o].line, ARROW)

RightOf(o) == After(out[o].line, ARROW)

\* 100 less the deduction of every issue of the report
RawScore(o) ==
    100 - 20 * TagCount(o, "spaces_in_container")
        - 10 * (TagCount(o, "invalid_action_code") + TagCount(o, "uppercase_action"))
        - 10 * TagCount(o, "verbose_token")
        - 5 * TagCount(o, "axis>1dp")
        - 3 * TagCount(o, "conf>2dp")

Floored(n) == IF n < 0 THEN 0 ELSE n

IssueTags ==
    {"missing_arrow", "spaces_in_container", "invalid_action_code", "uppercase_action",
     "verbose_token", "axis>1dp", "conf>2dp"}

\* every issue of report a is an issue of report b, as often at least
IssuesWithin(a, b) == \A tag \in IssueTags : TagCount(a, tag) <= TagCount(b, tag)

\* C14 as claimed: every score is max(0, 100 - the deductions of the issues
\* returned) and lies in 0..100.
C14_ScoreFormulaAllLines ==
    \A o \in 1..Len(out) :
        /\ out[o].score \in 0..100
        /\ out[o].score = Floored(RawScore(o))

\* C14 amended: the score lies in 0..100; for a line with the arrow it is
\* max(0, 100 - the deductions of the issues returned), for a line without it
\* is 0; a report whose issues contain those of another never scores higher.
C14_ScoreFormula ==
    /\ \A o \in 1..Len(out) :
           /\ out[o].score \in 0..100
           /\ out[o].score = IF HasArrow(o) THEN Floored(RawScore(o)) ELSE 0
    /\ \A a, b \in 1..Len(out) : IssuesWithin(a, b) => out[b].score <= out[a].score

\* a line with the arrow whose deductions exceed 100 and whose score is 0
C14_Witness ==
    \E o \in 1..Len(out) :
        /\ HasArrow(o)
        /\ RawScore(o) < 0
        /\ out[o].score = 0

\* C15: score_line returns for every line; the result is score 0 with the one
\* issue missing_arrow exactly for a line without the arrow, and missing_arrow
\* comes with no other issue and on no line that has the arrow.
C15_MissingArrowFloor ==
    /\ exc = ""
    /\ Len(out) = Cardinality({i \in 1..(idx - 1) : strip(lines[i]) # <<>>})
    /\ \A o \in 1..Len(out) :
           /\ (out[o].score = 0 /\ out[o].issues = <<[tag |-> "missing_arrow", token |-> <<>>]>>)
                  <=> ~HasArrow(o)
           /\ TagCount(o, "missing_arrow") > 0 => Len(out[o].issues) = 1 /\ ~HasArrow(o)

\* a line without the arrow that holds a space, scored 0 with missing_arrow alone
C15_Witness ==
    \E o \in 1..Len(out) :
        /\ ~HasArrow(o)
        /\ Contains(out[o].line, " ")
        /\ out[o].score = 0
        /\ out[o].issues = <<[tag |-> "missing_arrow", token |-> <<>>]>>

\* C16: spaces_in_container is reported once when the text left of the arrow
\* holds a whitespace character, a space or a tab, and not otherwise.
C16_AnyWhitespace ==
    \A o \in 1..Len(out) :
        HasArrow(o) =>
            TagCount(o, "spaces_in_container")
                = IF \E i \in 1..Len(LeftOf(o)) : LeftOf(o)[i] \in {" ", "\t"} THEN 1 ELSE 0

\* C17: on a container of 3 or more characters a third character outside
\* c, p, a, q, P, e gives invalid_action_code, a capital third character other
\* than P gives uppercase_action, and at most one of the two is reported.
C17_CapitalActionFlagged ==
    \A o \in 1..Len(out) :
        (HasArrow(o) /\ Len(LeftOf(o)) >= 3) =>
            /\ TagCount(o, "invalid_action_code") + TagCount(o, "uppercase_action") <= 1
            /\ (LeftOf(o)[3] \notin {"c", "p", "a", "q", "P", "e"} /\ ~IsUpper(LeftOf(o)[3]))
                   => TagCount(o, "invalid_action_code") = 1
            /\ (IsUpper(LeftOf(o)[3]) /\ LeftOf(o)[3] # "P")
                   => TagCount(o, "uppercase_action") = 1

\* the container text after its first 3 characters
MetaOf(o) == SubSeq(LeftOf(o), 4, Len(LeftOf(o)))

IsTokenChar(c) == IsAlpha(c) \/ IsDigit(c) \/ c \in {"_", ":", ".", "@"}

\* the positions of text where a maximal run of token characters starts
RunStarts(text) ==
    {p \in 1..Len(text) : IsTokenChar(text[p]) /\ (p = 1 \/ ~IsTokenChar(text[p - 1]))}

\* the maximal run of token characters that starts at p
RunAt(text, p) ==
    SubSeq(text, p, CHOOSE e \in p..Len(text) :
                        /\ \A q \in p..e : IsTokenChar(text[q])
                        /\ e = Len(text) \/ ~IsTokenChar(text[e + 1]))

\* only letters and underscores, more than 24 of them, and no allowed token
IsVerbose(t) ==
    /\ \A i \in 1..Len(t) : IsAlpha(t[i]) \/ t[i] = "_"
    /\ Len(t) > 24
    /\ ~ALLOWED_TOKEN_RE(t)

VerboseTokens(o) ==
    {i \in 1..Len(out[o].issues) : out[o].issues[i].tag = "verbose_token"}

\* C18: verbose_token is reported once for each maximal run of token characters
\* after the first 3 characters of the container that is made of letters and
\* underscores only, is longer than 24 and matches no allowed token form, and
\* for no other run.
C18_VerboseRuns ==
    \A o \in 1..Len(out) :
        HasArrow(o) =>
            /\ \A i \in VerboseTokens(o) :
                   \E p \in RunStarts(MetaOf(o)) :
                       /\ RunAt(MetaOf(o), p) = out[o].issues[i].token
                       /\ IsVerbose(out[o].issues[i].token)
            /\ Cardinality(VerboseTokens(o))
                   = Cardinality({p \in RunStarts(MetaOf(o)) : IsVerbose(RunAt(MetaOf(o), p))})

\* two runs of 25 letters that a hyphen parts, each reported
C18_Witness ==
    \E o \in 1..Len(out) :
        /\ HasArrow(o)
        /\ Cardinality(VerboseTokens(o)) = 2
        /\ Contains(MetaOf(o), "-")
        /\ \A i \in VerboseTokens(o) : Len(out[o].issues[i].token) = 25

\* the elements of the vector text of a reported line
ElementsOf(o) == VectorParts(strip(RightOf(o)))

\* number of digits that follow the decimal point of an element
PointDigits(p) == IF Contains(p, ".") THEN RunLen("digit", After(p, "."), 1) ELSE 0

\* C19: with a bracketed vector text, axis>1dp is reported once for every
\* element at index 0-3 with more than 1 digit after the decimal point and
\* conf>2dp for the element at index 4 with more than 2; elements from index 5
\* on and a text without brackets give neither.
C19_DecimalDigitsCounted ==
    \A o \in 1..Len(out) :
        HasArrow(o) =>
            IF Bracketed(strip(RightOf(o)))
            THEN /\ TagCount(o, "axis>1dp")
                        = Cardinality({i \in 1..Len(ElementsOf(o)) :
                                           i <= 4 /\ PointDigits(ElementsOf(o)[i]) > 1})
                 /\ TagCount(o, "conf>2dp")
                        = IF Len(ElementsOf(o)) >= 5 /\ PointDigits(ElementsOf(o)[5]) > 2
                          THEN 1 ELSE 0
            ELSE TagCount(o, "axis>1dp") = 0 /\ TagCount(o, "conf>2dp") = 0

(***************************************************************************)
(* Properties of the symbolizer                                            *)
(***************************************************************************)
\* C20: symbolize_line applied to a line it has produced gives that line
\* again, also when a ctag run was rewritten to several segments.
C20_Idempotent == \A o \in 1..Len(out) : symbolize_line(out[o]) = out[o]

\* the characters that end a ctag run of the symbolizer
RunBounds == {TAU, "[", ARROW}

\* position j of text lies in a ctag run: a "ctag." starts at or before j and
\* no bounding character stands between its start and j
InRun(text, j) ==
    \E q \in 1..j :
        /\ StartsAt(text, q, <<"c", "t", "a", "g", ".">>)
        /\ \A k \in q..j : text[k] \notin RunBounds

\* the positions at which a ctag run starts
RunHeads(text) == {j \in 1..Len(text) : InRun(text, j) /\ (j = 1 \/ ~InRun(text, j - 1))}

\* the run that starts at position p
RunFrom(text, p) ==
    SubSeq(text, p, IF FindFrom(text, RunBounds, p) = 0 THEN Len(text)
                    ELSE FindFrom(text, RunBounds, p) - 1)

\* the k-th smallest of a set of positions
Nth(ps, k) == CHOOSE p \in ps : Cardinality({q \in ps : q < p}) = k - 1

\* the ctag runs of text, left to right
RunsOf(text) == [k \in 1..Cardinality(RunHeads(text)) |-> RunFrom(text, Nth(RunHeads(text), k))]

\* the positions outside every run, and the start of each run
SkeletonPositions(text) == {j \in 1..Len(text) : ~InRun(text, j)} \cup RunHeads(text)

\* text with every run collapsed to one mark: the characters outside the runs
\* in their order, with the places of the runs between them
Skeleton(text) ==
    [k \in 1..Cardinality(SkeletonPositions(text)) |->
        IF InRun(text, Nth(SkeletonPositions(text), k)) THEN "<run>"
        ELSE text[Nth(SkeletonPositions(text), k)]]

\* w is one of the parts of the run's body cut at ':' and '_'
HasPart(run, w) ==
    \E i \in 6..Len(run) :
        /\ StartsAt(run, i, w)
        /\ (i = 6 \/ run[i - 1] \in {":", "_"})
        /\ (i + Len(w) > Len(run) \/ run[i + Len(w)] \in {":", "_"})

KwFailed == <<"f", "a", "i", "l", "e", "d">>
KwUrgent == <<"u", "r", "g", "e", "n", "t">>
KwReady == <<"r", "e", "a", "d", "y">>
KwAck == <<"a", "c", "k">>
KwLoopFamily ==
    {<<"l", "o", "o", "p">>, <<"l", "o", "o", "p", "s">>, <<"l", "o", "o", "p", "i", "n", "g">>,
     <<"p", "e", "n", "d", "i", "n", "g">>}
KwRepFix == {<<"r", "e", "p">>, <<"r", "e", "p", "e", "t", "i", "t", "i", "o", "n">>, <<"f", "i", "x">>}
KwImpl == {<<"i", "m", "p", "l">>, <<"i", "m", "p", "l", "e", "m", "e", "n", "t">>}
KwParams == <<"p", "a", "r", "a", "m", "s">>
KwParameters == <<"p", "a", "r", "a", "m", "e", "t", "e", "r", "s">>
KwArch == <<"a", "r", "c", "h">>
KwArchive == <<"a", "r", "c", "h", "i", "v", "e">>

\* the keywords for which some category rule appends a segment
Producing ==
    {KwFailed, KwUrgent, KwReady, KwAck, KwParams, KwParameters, KwArch, KwArchive}
        \cup KwLoopFamily \cup KwRepFix \cup KwImpl

HasAny(run, words) == \E w \in words : HasPart(run, w)

\* C21: every printed rewrite of a line keeps the characters outside the ctag
\* runs, in order and with the runs at the same places, and a run none of
\* whose parts makes a category rule append a segment is printed unchanged.
C21_OnlyCtagRuns ==
    \A o \in 1..Len(out) :
        strip(lines[o]) # <<>> =>
            /\ Skeleton(out[o]) = Skeleton(lines[o])
            /\ Len(RunsOf(out[o])) = Len(RunsOf(lines[o]))
            /\ \A k \in 1..Len(RunsOf(lines[o])) :
                   ~HasAny(RunsOf(lines[o])[k], Producing) =>
                       RunsOf(out[o])[k] = RunsOf(lines[o])[k]

\* a line with a rewritten run, a run without any producing keyword and text
\* outside the runs has been printed
C21_Witness ==
    \E o \in 1..Len(out) :
        /\ out[o] # lines[o]
        /\ \E k \in 1..Len(RunsOf(lines[o])) : ~HasAny(RunsOf(lines[o])[k], Producing)
        /\ \E j \in 1..Len(lines[o]) : ~InRun(lines[o], j)

\* "ctag.<symbol>:" followed by a code
Seg(symbol, code) == <<"c", "t", "a", "g", ".", symbol, ":">> \o code

\* at most one status segment: failed before urgent before ready or ack
ExpectedStatus(run) ==
    IF HasPart(run, KwFailed) THEN Seg("U+03C3", <<"U+2717">>)
    ELSE IF HasPart(run, KwUrgent) THEN Seg("U+03C3", <<"U+203C">>)
    ELSE IF HasPart(run, KwReady) \/ HasPart(run, KwAck) THEN Seg("U+03C3", <<"U+2713">>)
    ELSE <<>>

ExpectedLoop(run) == IF HasAny(run, KwLoopFamily) THEN Seg("U+03C3", <<"U+27F3">>) ELSE <<>>

ExpectedImpl(run) ==
    IF HasAny(run, KwRepFix) THEN Seg("U+03BC", <<"r", "e", "p", "_", "f", "i", "x">>)
    ELSE IF HasAny(run, KwImpl) THEN Seg("U+03BC", <<"i", "m", "p", "l">>)
    ELSE <<>>

\* the knowledge segment for the sub-keywords found: params, arch or both
ExpectedKnowledge(params, arch) ==
    IF params /\ arch THEN Seg("U+03BA", KwParams \o <<":">> \o KwArch)
    ELSE IF params THEN Seg("U+03BA", KwParams)
    ELSE IF arch THEN Seg("U+03BA", KwArch)
    ELSE <<>>

\* the segments in the order status, loop, implementation, knowledge, or the
\* run itself when there is none
ExpectedRun(run, params, arch) ==
    IF ExpectedStatus(run) \o ExpectedLoop(run) \o ExpectedImpl(run)
           \o ExpectedKnowledge(params, arch) = <<>>
    THEN run
    ELSE ExpectedStatus(run) \o ExpectedLoop(run) \o ExpectedImpl(run)
             \o ExpectedKnowledge(params, arch)

\* C22 as stated: every run is printed as its segments in the order status,
\* loop, implementation, knowledge, the knowledge segment naming params and
\* arch exactly when the parts 'params' and 'arch' occur in the run.
C22_SegmentsAsStated ==
    \A o \in 1..Len(out) :
        strip(lines[o]) # <<>> =>
            \A k \in 1..Len(RunsOf(lines[o])) :
                RunsOf(out[o])[k] =
                    ExpectedRun(RunsOf(lines[o])[k],
                                HasPart(RunsOf(lines[o])[k], KwParams),
                                HasPart(RunsOf(lines[o])[k], KwArch))

\* C22: every run is printed as its segments in the order status, loop,
\* implementation, knowledge, whatever the order of the keywords in the run;
\* the knowledge segment names params when 'params' or 'parameters' is a part
\* and arch when 'arch' or 'archive' is; a run without segments is printed
\* as it is.
C22_Segments ==
    \A o \in 1..Len(out) :
        strip(lines[o]) # <<>> =>
            \A k \in 1..Len(RunsOf(lines[o])) :
                RunsOf(out[o])[k] =
                    ExpectedRun(RunsOf(lines[o])[k],
                                HasAny(RunsOf(lines[o])[k], {KwParams, KwParameters}),
                                HasAny(RunsOf(lines[o])[k], {KwArch, KwArchive}))

\* a run whose keywords stand in the order knowledge, implementation, loop,
\* status, the knowledge keyword being 'parameters', has been printed as four
\* segments
C22_Witness ==
    \E o \in 1..Len(out) :
        \E k \in 1..Len(RunsOf(lines[o])) :
            /\ HasPart(RunsOf(lines[o])[k], KwParameters)
            /\ HasPart(RunsOf(lines[o])[k], KwAck)
            /\ RunsOf(out[o])[k] =
                   Seg("U+03C3", <<"U+2713">>) \o Seg("U+03C3", <<"U+27F3">>)
                       \o Seg("U+03BC", <<"r", "e", "p", "_", "f", "i", "x">>)
                       \o Seg("U+03BA", KwParams)

\* C23: a keyword is recognised whatever its letter case: a run whose
\* lowercased body holds a producing keyword part is printed as the segments
\* of the lowercased run.
C23_CaseInsensitive ==
    \A o \in 1..Len(out) :
        strip(lines[o]) # <<>> =>
            \A k \in 1..Len(RunsOf(lines[o])) :
                HasAny(lower(RunsOf(lines[o])[k]), Producing) =>
                    RunsOf(out[o])[k] =
                        ExpectedRun(lower(RunsOf(lines[o])[k]),
                                    HasAny(lower(RunsOf(lines[o])[k]), {KwParams, KwParameters}),
                                    HasAny(lower(RunsOf(lines[o])[k]), {KwArch, KwArchive}))

\* every character of the line is whitespace (also when there is none)
IsBlank(line) == \A j \in 1..Len(line) : IsSpace(line[j])

NotBlank(line) == ~IsBlank(line)

\* the lines the driver has taken that are not blank, in input order
TakenNotBlank == SelectSeq(SubSeq(lines, 1, idx - 1), NotBlank)

\* a report's score lies below the configured minimum
BelowMin(r) == min_score # None /\ r.score < min_score.some

\* C25: the lint driver has printed one report for every non-blank line it
\* has taken and none for a blank one, in input order, each with the score
\* and the issues of its line and with ok true exactly when no minimum is
\* configured or the score reaches it; it ends only after the last line, with
\* exit status 1 exactly when a minimum is configured and some report lies
\* below it, and 0 otherwise.
C25_OneReportPerLine ==
    pc \in {"lint", "exited"} =>
        /\ Len(out) = Len(TakenNotBlank)
        /\ \A k \in 1..Len(out) :
               /\ out[k].line = TakenNotBlank[k]
               /\ out[k].score = score_line(TakenNotBlank[k]).score
               /\ out[k].issues = score_line(TakenNotBlank[k]).issues
               /\ out[k].ok = ~BelowMin(out[k])
        /\ pc = "exited" =>
               /\ idx = Len(lines) + 1
               /\ exit_code = Some(IF \E k \in 1..Len(out) : BelowMin(out[k]) THEN 1 ELSE 0)

\* a run with a minimum has ended with status 1 after a line below the
\* minimum was followed by a line that reaches it
C25_Witness ==
    /\ pc = "exited"
    /\ min_score # None
    /\ Len(out) = 2
    /\ ~out[1].ok
    /\ out[2].ok
    /\ exit_code = Some(1)

\* vectors of four axes whose scaled sums are 0, 1, 2, 3, -1 and 10
ProbeVectors ==
    {<<float(a), float(<<"0">>), float(<<"0">>), float(<<"0">>)>> :
        a \in {<<"0">>, <<"0", ".", "1">>, <<"0", ".", "2">>, <<"0", ".", "3">>,
               <<"-", "0", ".", "1">>, <<"1">>}}

\* C28: the parity_2b computed for a message is (first hash byte of the
\* container text mod 4) XOR parity_t9, and every other vector with the same
\* parity_t9 gets the same parity_2b for this container text.
C28_ParityCoupled ==
    (pc \in {"emit", "exited"} /\ pt9 # None /\ p2b # None) =>
        /\ p2b.some = ByteXor(Residue(Sha256Byte0(container.container_text), 4), pt9.some)
        /\ \A v \in ProbeVectors :
               parity_t9(v) = pt9.some => parity2b(container.container_text, v) = p2b.some

\* parities computed where parity_t9, the hash byte mod 4 and parity_2b are
\* all other than 0
C28_Witness ==
    /\ pc = "exited"
    /\ pt9 # None
    /\ p2b # None
    /\ pt9.some # 0
    /\ Residue(Sha256Byte0(container.container_text), 4) # 0
    /\ p2b.some # 0

(***************************************************************************)
(* Properties of the training-data builder                                 *)
(***************************************************************************)
\* C26: a line that run_once has just validated and marked validated has no
\* parse error, 4 or 5 values, and every value in its range (axes 0-3 in
\* [-1,1], axis 4 in [0,1]).
C26_RangesValidated ==
    (pc = "score" /\ validate /\ stats.validated) =>
        /\ parse_message(shimmer_line).errs = <<>>
        /\ Len(parse_message(shimmer_line).vector.values) \in {4, 5}
        /\ RangeErrors(parse_message(shimmer_line).vector.values) = <<>>

\* C27: when run_once returns after a call with validate = true, the
\* validated flag and the validation errors of its stats are those of the
\* line it returns, and it has made each of the two retries at most once.
C27_StatsOfReturnedLine ==
    (pc = "returned" /\ validate) =>
        /\ stats.validated = validate_shimmer(shimmer_line).ok
        /\ stats.validation_errors = validate_shimmer(shimmer_line).errs
        /\ Count(calls, "nudge") <= 1
        /\ Count(calls, "compact") <= 1

(***************************************************************************)
(* Properties that relate the symbolizer and the linter to the parser      *)
(***************************************************************************)
\* two results of parse_message that agree on everything but the ctag list
SameButCtag(a, b) ==
    /\ a.errs = b.errs
    /\ (a.container = None) = (b.container = None)
    /\ a.container # None =>
           /\ a.container.routing = b.container.routing
           /\ a.container.action = b.container.action
           /\ a.container.deadline_seconds = b.container.deadline_seconds
           /\ a.container.tokens.rn = b.container.tokens.rn
           /\ a.container.tokens.session = b.container.tokens.session
           /\ a.container.tokens.shard = b.container.tokens.shard
           /\ a.container.tokens.deliverables = b.container.tokens.deliverables
           /\ a.vector.values = b.vector.values

\* C29: every printed rewrite of a line parses to the same routing, action,
\* deadline, rn, session, shard and deliverables lists, vector values and
\* errors as the line itself.
C29_ParsePreserved ==
    \A o \in 1..Len(out) :
        ~IsBlank(lines[o]) => SameButCtag(parse_message(out[o]), parse_message(lines[o]))

\* C30: for every reported line that holds the arrow and whose trimmed
\* container has at least 3 characters, the linter lists invalid_action_code
\* exactly when the parser lists bad_action_code.
C30_ActionAgreement ==
    \A o \in 1..Len(out) :
        (HasArrow(o) /\ Len(strip(LeftOf(o))) >= 3) =>
            ((TagCount(o, "invalid_action_code") > 0)
                 = Has(parse_message(out[o].line).errs, "bad_action_code"))
====
